---- MODULE Spec2Model ----
(***************************************************************************)
(* etz: git worktrees across several repositories.                         *)
(*                                                                         *)
(* The model covers the build process tracker (commands/build.ts), the     *)
(* worktree orchestration (commands/switch.ts), the cleanup engine         *)
(* (commands/clean.ts) and the git adapter they call (git/operations.ts).  *)
(*                                                                         *)
(* Strings are sequences of one-character strings, so that includes,       *)
(* startsWith, trim and path.join are computed and not assumed. A path is  *)
(* a sequence of segments, a segment a sequence of characters.             *)
(***************************************************************************)
EXTENDS Naturals, Sequences, FiniteSets, TLC

VARIABLES
    activeBuilds,   \* build.ts:23  the registry, in Map insertion order
    procs,          \* the child processes spawned so far, by pid
    lineNo,         \* number of output lines the child processes have written
    fs,             \* the paths that exist on disk
    git,            \* per repository: local and remote branches, worktrees
    call,           \* the create or clean call in flight, if any
    gitCalls,       \* the git commands the call in flight has issued
    last,           \* the last operation or event, with what it returned
    received        \* history: by pid, the lines pushed to that build's buffer

vars == <<activeBuilds, procs, lineNo, fs, git, call, gitCalls, last, received>>

buildVars == <<activeBuilds, procs, lineNo, received>>
treeVars == <<fs, git, call, gitCalls>>

----------------------------------------------------------------------------
(* Bounds of the model *)

\* child processes spawned in one behaviour
MaxProcs == 3
\* raw lines in one chunk of output
MaxChunk == 2

----------------------------------------------------------------------------
(* Strings *)

Contains(s, sub) ==
    \E i \in 1..(Len(s) + 1) :
        /\ i + Len(sub) - 1 <= Len(s)
        /\ SubSeq(s, i, i + Len(sub) - 1) = sub

StartsWith(s, pre) ==
    /\ Len(pre) <= Len(s)
    /\ SubSeq(s, 1, Len(pre)) = pre

\* s.trim().length === 0
EndsWith(s, suf) ==
    Len(suf) <= Len(s) /\ SubSeq(s, Len(s) - Len(suf) + 1, Len(s)) = suf

TrimIsEmpty(s) == \A i \in 1..Len(s) : s[i] = " "

\* path.isAbsolute on the platform the tool targets (posix)
isAbsolute(s) == Len(s) > 0 /\ s[1] = "/"

----------------------------------------------------------------------------
(* build.ts: the active build registry *)

MAX_OUTPUT_BUFFER_SIZE == 500

BuildTypes == {"pod_install", "build_infra_ios", "build_ios", "build_android"}

\* The message of the Error validateLabel throws, "ok" when it returns.
\* Mutant: validateLabel without the check for ".."
validateLabelNoTraversal(label) ==
    IF Contains(label, <<"/">>) \/ Contains(label, <<"\\">>)
    THEN "Invalid label: cannot contain path separators or traversal sequences"
    ELSE IF isAbsolute(label)
    THEN "Invalid label: cannot be an absolute path"
    ELSE IF Len(label) = 0 \/ TrimIsEmpty(label)
    THEN "Invalid label: cannot be empty"
    ELSE "ok"

validateLabel(label) ==
    IF Contains(label, <<".", ".">>) \/ Contains(label, <<"/">>)
          \/ Contains(label, <<"\\">>)
    THEN "Invalid label: cannot contain path separators or traversal sequences"
    ELSE IF isAbsolute(label)
    THEN "Invalid label: cannot be an absolute path"
    ELSE IF Len(label) = 0 \/ TrimIsEmpty(label)
    THEN "Invalid label: cannot be empty"
    ELSE "ok"

getBuildKey(label, type) == label \o <<":", type>>

\* Mutant: Map.delete that removes nothing
DeleteNone(builds, key) == builds

\* Map.has, Map.get, Map.delete and Map.set on the insertion-ordered registry
Has(builds, key) == \E i \in 1..Len(builds) : builds[i].key = key

Get(builds, key) == builds[CHOOSE i \in 1..Len(builds) : builds[i].key = key]

Delete(builds, key) == SelectSeq(builds, LAMBDA b : b.key # key)

Set(builds, entry) ==
    IF Has(builds, entry.key)
    THEN [i \in 1..Len(builds) |->
             IF builds[i].key = entry.key THEN entry ELSE builds[i]]
    ELSE Append(builds, entry)

\* text.trim().split('\n').filter(line => line.length > 0), on a chunk given
\* as its raw lines: the empty ones go.
SplitLines(text) == SelectSeq(text, LAMBDA line : line # <<>>)

\* Mutant: slice(0, MAX_OUTPUT_BUFFER_SIZE), which keeps the oldest lines
PushLinesKeepOldest(buffer, lines) ==
    LET all == buffer \o lines
    IN  IF Len(all) > MAX_OUTPUT_BUFFER_SIZE
        THEN SubSeq(all, 1, MAX_OUTPUT_BUFFER_SIZE)
        ELSE all

\* outputBuffer.push(...lines), then slice(-MAX_OUTPUT_BUFFER_SIZE) when too long
PushLines(buffer, lines) ==
    LET all == buffer \o lines
    IN  IF Len(all) > MAX_OUTPUT_BUFFER_SIZE
        THEN SubSeq(all, Len(all) - MAX_OUTPUT_BUFFER_SIZE + 1, Len(all))
        ELSE all

----------------------------------------------------------------------------
(* build.ts: requests, output, completion, cancellation *)

NoType == ""

\* child_process.spawn: a new running process whose handlers close over key
\* and over output, the text its stdout has written so far
Spawn(label, type) ==
    Append(procs, [label |-> label, type |-> type, st |-> "running", output |-> <<>>])

NewEntry(label, type, pid) ==
    [key |-> getBuildKey(label, type), label |-> label, type |-> type,
     process |-> pid, outputBuffer |-> <<>>]

\* Mutant: runBuildProcess without the check of the registry
runBuildProcessUnchecked(label, type, cap) ==
    /\ type \in BuildTypes \ {"build_ios"}
    /\ IF validateLabel(label) # "ok"
       THEN /\ last' = [op |-> "build", label |-> label, type |-> type,
                        success |-> FALSE, error |-> validateLabel(label)]
            /\ UNCHANGED buildVars
       ELSE /\ Len(procs) < cap
            /\ procs' = Spawn(label, type)
            /\ activeBuilds' = Set(activeBuilds, NewEntry(label, type, Len(procs) + 1))
            /\ received' = Append(received, <<>>)
            /\ last' = [op |-> "build", label |-> label, type |-> type,
                        success |-> TRUE, error |-> "pending"]
            /\ UNCHANGED lineNo
    /\ UNCHANGED treeVars

\* runPodInstall, buildInfraIOS and buildAndroid: runBuildProcess up to the
\* point where the promise is pending. cap bounds the processes spawned.
runBuildProcess(label, type, cap) ==
    /\ type \in BuildTypes \ {"build_ios"}
    /\ IF validateLabel(label) # "ok"
       THEN /\ last' = [op |-> "build", label |-> label, type |-> type,
                        success |-> FALSE, error |-> validateLabel(label)]
            /\ UNCHANGED buildVars
       ELSE IF Has(activeBuilds, getBuildKey(label, type))
       THEN /\ last' = [op |-> "build", label |-> label, type |-> type,
                        success |-> FALSE, error |-> "already in progress"]
            /\ UNCHANGED buildVars
       ELSE /\ Len(procs) < cap
            /\ procs' = Spawn(label, type)
            /\ activeBuilds' = Set(activeBuilds, NewEntry(label, type, Len(procs) + 1))
            /\ received' = Append(received, <<>>)
            /\ last' = [op |-> "build", label |-> label, type |-> type,
                        success |-> TRUE, error |-> "pending"]
            /\ UNCHANGED lineNo
    /\ UNCHANGED treeVars

\* buildIOS up to the point where the promise is pending
buildIOS(label, cap) ==
    /\ IF validateLabel(label) # "ok"
       THEN /\ last' = [op |-> "build", label |-> label, type |-> "build_ios",
                        success |-> FALSE, error |-> validateLabel(label)]
            /\ UNCHANGED buildVars
       ELSE IF Has(activeBuilds, getBuildKey(label, "build_ios"))
       THEN /\ last' = [op |-> "build", label |-> label, type |-> "build_ios",
                        success |-> FALSE, error |-> "already in progress"]
            /\ UNCHANGED buildVars
       ELSE /\ Len(procs) < cap
            /\ procs' = Spawn(label, "build_ios")
            /\ activeBuilds' = Set(activeBuilds, NewEntry(label, "build_ios", Len(procs) + 1))
            /\ received' = Append(received, <<>>)
            /\ last' = [op |-> "build", label |-> label, type |-> "build_ios",
                        success |-> TRUE, error |-> "pending"]
            /\ UNCHANGED lineNo
    /\ UNCHANGED treeVars

\* A chunk of output: raw line i has content (its number in the order of
\* writing) where pattern[i] is TRUE and is empty where it is FALSE.
Written(pattern, i) == Cardinality({j \in 1..i : pattern[j]})

Chunk(pattern, from) ==
    [i \in 1..Len(pattern) |->
        IF pattern[i] THEN <<from + Written(pattern, i)>> ELSE <<>>]

Patterns == UNION {[1..n -> BOOLEAN] : n \in 0..MaxChunk}

\* The stdout and stderr 'data' handlers (the same code four times): the
\* entry is looked up by key when the chunk arrives. Only stdout adds to
\* output (the text stderr adds to errorOutput is not kept: the results hold
\* an error either way).
OnData(pid, stream, pattern, cap) ==
    LET key == getBuildKey(procs[pid].label, procs[pid].type)
        text == Chunk(pattern, lineNo)
        lines == SplitLines(text)
    IN  /\ procs[pid].st \in {"running", "killed"}
        /\ lineNo + Written(pattern, Len(pattern)) <= cap
        /\ lineNo' = lineNo + Written(pattern, Len(pattern))
        /\ IF Has(activeBuilds, key)
           THEN LET build == Get(activeBuilds, key)
                IN  /\ activeBuilds' = Set(activeBuilds,
                           [build EXCEPT !.outputBuffer = PushLines(@, lines)])
                    /\ received' = [received EXCEPT ![build.process] = @ \o lines]
           ELSE UNCHANGED <<activeBuilds, received>>
        /\ procs' = IF stream = "stdout"
                    THEN [procs EXCEPT ![pid].output = @ \o text]
                    ELSE procs
        /\ last' = [op |-> "data", pid |-> pid]
        /\ UNCHANGED treeVars

\* 'close' comes once, after the process has ended: with the code it ended
\* with, or with a code that is not 0 when it could not be spawned
CanClose(pid, code) ==
    \/ procs[pid].st \in {"running", "killed"}
    \/ procs[pid].st = "errored" /\ code # 0

\* The 'error' event of a subprocess that could not be spawned (a cwd or an
\* executable that does not exist). Neither runBuildProcess nor buildIOS
\* registers a listener for it, so the event is thrown as an uncaught
\* exception: the promise of the build is not resolved and the registry is
\* not touched. Whether the host outlives the exception is the host's
\* choice: without an 'uncaughtException' handler it ends ("uncaught"), with
\* one it goes on and the 'close' of the subprocess follows ("errored").
spawnError(pid, survives) ==
    /\ procs[pid].st = "running"
    /\ procs[pid].output = <<>>
    /\ procs' = [procs EXCEPT ![pid].st = IF survives THEN "errored" ELSE "uncaught"]
    /\ last' = [op |-> "error", pid |-> pid, label |-> procs[pid].label,
                type |-> procs[pid].type, resolved |-> FALSE]
    /\ UNCHANGED <<activeBuilds, lineNo, received, treeVars>>

\* Mutant: the 'close' handler removes the entry only after a success
runBuildProcessCloseKeeps(pid, code) ==
    LET key == getBuildKey(procs[pid].label, procs[pid].type)
    IN  /\ procs[pid].st \in {"running", "killed"}
        /\ procs[pid].type # "build_ios"
        /\ procs' = [procs EXCEPT ![pid].st = "closed"]
        /\ activeBuilds' = IF code = 0 THEN Delete(activeBuilds, key) ELSE activeBuilds
        /\ last' = [op |-> "close", pid |-> pid, label |-> procs[pid].label,
                    type |-> procs[pid].type, success |-> (code = 0),
                    error |-> IF code = 0 THEN "none" ELSE "failed"]
        /\ UNCHANGED <<lineNo, received, treeVars>>

\* The 'close' handler of runBuildProcess. A killed process closes too, with
\* the code it ended with.
runBuildProcessClose(pid, code) ==
    LET key == getBuildKey(procs[pid].label, procs[pid].type)
    IN  /\ CanClose(pid, code)
        /\ procs[pid].type # "build_ios"
        /\ procs' = [procs EXCEPT ![pid].st = "closed"]
        /\ activeBuilds' = Delete(activeBuilds, key)
        /\ last' = [op |-> "close", pid |-> pid, label |-> procs[pid].label,
                    type |-> procs[pid].type, success |-> (code = 0),
                    error |-> IF code = 0 THEN "none" ELSE "failed",
                    code |-> code, output |-> procs[pid].output]
        /\ UNCHANGED <<lineNo, received, treeVars>>

\* The line that a successful export adds to the output of the result
IPASaved == <<0>>

\* Mutant: the result of the export is not looked at
buildIOSCloseIgnoresExport(pid, code, exportOk) ==
    LET key == getBuildKey(procs[pid].label, procs[pid].type)
    IN  /\ CanClose(pid, code)
        /\ procs[pid].type = "build_ios"
        /\ procs' = [procs EXCEPT ![pid].st = "closed"]
        /\ activeBuilds' = Delete(activeBuilds, key)
        /\ last' = [op |-> "close", pid |-> pid, label |-> procs[pid].label,
                    type |-> procs[pid].type,
                    success |-> (code = 0),
                    error |-> IF code # 0 THEN "failed" ELSE "none",
                    code |-> code,
                    export |-> IF code # 0 THEN "not run"
                               ELSE IF exportOk THEN "ok" ELSE "failed",
                    output |-> IF code = 0
                               THEN Append(procs[pid].output, IPASaved)
                               ELSE procs[pid].output]
        /\ UNCHANGED <<lineNo, received, treeVars>>

\* The 'close' handler of buildIOS: after an archive that exits with 0, and
\* only then, comes the export (writeFileSync, spawnSync, the copy of the
\* IPA), which succeeds or throws into the catch.
buildIOSClose(pid, code, exportOk) ==
    LET key == getBuildKey(procs[pid].label, procs[pid].type)
    IN  /\ CanClose(pid, code)
        /\ procs[pid].type = "build_ios"
        /\ procs' = [procs EXCEPT ![pid].st = "closed"]
        /\ activeBuilds' = Delete(activeBuilds, key)
        /\ last' = [op |-> "close", pid |-> pid, label |-> procs[pid].label,
                    type |-> procs[pid].type,
                    success |-> (code = 0 /\ exportOk),
                    error |-> IF code # 0 THEN "failed"
                              ELSE IF exportOk THEN "none" ELSE "Export failed",
                    code |-> code,
                    export |-> IF code # 0 THEN "not run"
                               ELSE IF exportOk THEN "ok" ELSE "failed",
                    output |-> IF code = 0 /\ exportOk
                               THEN Append(procs[pid].output, IPASaved)
                               ELSE procs[pid].output]
        /\ UNCHANGED <<lineNo, received, treeVars>>

\* ChildProcess.kill(): the signal is sent; the process closes later
Kill(ps, pid) == [ps EXCEPT ![pid].st = IF @ = "running" THEN "killed" ELSE @]

\* Mutant: killBuild leaves the removal of the entry to the 'close' handler
killBuildKeepsEntry(label, type) ==
    LET key == getBuildKey(label, type)
    IN  /\ IF validateLabel(label) = "ok" /\ Has(activeBuilds, key)
           THEN /\ procs' = Kill(procs, Get(activeBuilds, key).process)
                /\ last' = [op |-> "killBuild", label |-> label, type |-> type,
                            value |-> TRUE]
                /\ UNCHANGED activeBuilds
           ELSE /\ last' = [op |-> "killBuild", label |-> label, type |-> type,
                            value |-> FALSE]
                /\ UNCHANGED <<activeBuilds, procs>>
        /\ UNCHANGED <<lineNo, received, treeVars>>

killBuild(label, type) ==
    LET key == getBuildKey(label, type)
    IN  /\ IF validateLabel(label) # "ok"
           THEN /\ last' = [op |-> "killBuild", label |-> label, type |-> type,
                            value |-> FALSE]
                /\ UNCHANGED <<activeBuilds, procs>>
           ELSE IF Has(activeBuilds, key)
           THEN /\ procs' = Kill(procs, Get(activeBuilds, key).process)
                /\ activeBuilds' = Delete(activeBuilds, key)
                /\ last' = [op |-> "killBuild", label |-> label, type |-> type,
                            value |-> TRUE]
           ELSE /\ last' = [op |-> "killBuild", label |-> label, type |-> type,
                            value |-> FALSE]
                /\ UNCHANGED <<activeBuilds, procs>>
        /\ UNCHANGED <<lineNo, received, treeVars>>

\* The loop of killAllBuildsForLabel: the entries whose label is label
LabelEntries(builds, label) == SelectSeq(builds, LAMBDA b : b.label = label)

RECURSIVE KillEach(_, _)
KillEach(ps, entries) ==
    IF entries = <<>> THEN ps
    ELSE KillEach(Kill(ps, Head(entries).process), Tail(entries))

\* Mutant: the loop over the registry stops at the first build of the label
KillAllFirstOnly(builds, ps, label) ==
    LET entries == LabelEntries(builds, label)
    IN  IF validateLabel(label) # "ok" \/ entries = <<>>
        THEN [count |-> 0, builds |-> builds, procs |-> ps]
        ELSE [count |-> 1,
              builds |-> Delete(builds, Head(entries).key),
              procs |-> Kill(ps, Head(entries).process)]

\* Mutant: the loop does not compare the label of the build
KillLoopAnyLabel(entries, r, label) ==
    [count |-> r.count + Len(entries),
     builds |-> SelectSeq(r.builds,
                    LAMBDA b : \A i \in 1..Len(entries) : entries[i].key # b.key),
     procs |-> KillEach(r.procs, entries)]

\* for (const [key, build] of activeBuilds.entries()): a build whose label
\* is label is killed, deleted by its key and counted
RECURSIVE KillLoop(_, _, _)
KillLoop(entries, r, label) ==
    IF entries = <<>> THEN r
    ELSE LET build == Head(entries)
         IN  KillLoop(Tail(entries),
                      IF build.label = label
                      THEN [count |-> r.count + 1,
                            builds |-> Delete(r.builds, build.key),
                            procs |-> Kill(r.procs, build.process)]
                      ELSE r,
                      label)

\* killAllBuildsForLabel as a function of the state: what it returns and
\* what it leaves
KillAll(builds, ps, label) ==
    IF validateLabel(label) # "ok"
    THEN [count |-> 0, builds |-> builds, procs |-> ps]
    ELSE KillLoop(builds, [count |-> 0, builds |-> builds, procs |-> ps], label)

killAllBuildsForLabel(label) ==
    LET r == KillAll(activeBuilds, procs, label)
    IN  /\ activeBuilds' = r.builds
        /\ procs' = r.procs
        /\ last' = [op |-> "killAllBuildsForLabel", label |-> label,
                    value |-> r.count]
        /\ UNCHANGED <<lineNo, received, treeVars>>

\* The queries. type is NoType when the caller gives none.
KeyOfLabel(key, label) == StartsWith(key, label \o <<":">>)

isBuildInProgress(label, type) ==
    IF validateLabel(label) # "ok" THEN FALSE
    ELSE IF type # NoType THEN Has(activeBuilds, getBuildKey(label, type))
    ELSE \E i \in 1..Len(activeBuilds) : KeyOfLabel(activeBuilds[i].key, label)

\* The first entry, in insertion order, whose key starts with label and ':'
FirstOfLabel(label) ==
    LET hits == SelectSeq(activeBuilds, LAMBDA b : KeyOfLabel(b.key, label))
    IN  IF hits = <<>> THEN <<>> ELSE <<Head(hits)>>

getBuildOutput(label, type) ==
    IF validateLabel(label) # "ok" THEN <<>>
    ELSE IF type # NoType
    THEN IF Has(activeBuilds, getBuildKey(label, type))
         THEN Get(activeBuilds, getBuildKey(label, type)).outputBuffer
         ELSE <<>>
    ELSE IF FirstOfLabel(label) = <<>> THEN <<>>
    ELSE FirstOfLabel(label)[1].outputBuffer

\* null is <<>>; of the value { type, duration } the type is kept (the
\* duration is a difference of clock readings)
getActiveBuildInfo(label) ==
    IF validateLabel(label) # "ok" THEN <<>>
    ELSE IF FirstOfLabel(label) = <<>> THEN <<>>
    ELSE <<[type |-> FirstOfLabel(label)[1].type]>>

----------------------------------------------------------------------------
(* Paths and the file system: path.join, path.normalize, fs *)

RECURSIVE SplitPath(_)
\* The segments of a string between '/'; empty segments vanish in join.
SplitPath(s) ==
    IF s = <<>> THEN <<>>
    ELSE LET cut == IF Contains(s, <<"/">>)
                    THEN CHOOSE i \in 1..Len(s) :
                             /\ s[i] = "/"
                             /\ \A j \in 1..(i - 1) : s[j] # "/"
                    ELSE Len(s) + 1
             head == SubSeq(s, 1, cut - 1)
         IN  (IF head = <<>> THEN <<>> ELSE <<head>>)
                 \o SplitPath(SubSeq(s, cut + 1, Len(s)))

RECURSIVE Resolve(_, _)
\* path.normalize on segments: '.' goes, '..' takes the segment before it.
Resolve(done, segs) ==
    IF segs = <<>> THEN done
    ELSE IF Head(segs) = <<".">> THEN Resolve(done, Tail(segs))
    ELSE IF Head(segs) = <<".", ".">>
    THEN Resolve(IF done = <<>> THEN <<>> ELSE SubSeq(done, 1, Len(done) - 1),
                 Tail(segs))
    ELSE Resolve(Append(done, Head(segs)), Tail(segs))

normalize(path) == Resolve(<<>>, path)

\* path.join(dir, name) for an absolute dir
join(dir, name) == normalize(dir \o SplitPath(name))

dirname(path) == IF path = <<>> THEN <<>> ELSE SubSeq(path, 1, Len(path) - 1)

RECURSIVE PathString(_)
\* The path as the string node gives: '/' before every segment
PathString(path) ==
    IF path = <<>> THEN <<>>
    ELSE <<"/">> \o Head(path) \o PathString(Tail(path))

IsUnder(dir, path) == Len(dir) <= Len(path) /\ SubSeq(path, 1, Len(dir)) = dir

existsSync(f, path) == path = <<>> \/ path \in f

mkdirSync(f, path) == f \cup {SubSeq(path, 1, i) : i \in 1..Len(path)}

rmSync(f, path) == {q \in f : ~IsUnder(path, q)}

readdirSync(f, path) ==
    {q[Len(path) + 1] : q \in {x \in f : Len(x) = Len(path) + 1 /\ IsUnder(path, x)}}

DotGit == <<".", "g", "i", "t">>

----------------------------------------------------------------------------
(* The configuration (getConfig) *)

worktrees_dir == << <<"w">> >>

base_branch == <<"m">>

RepoP == <<"p">>
RepoQ == <<"q">>
RepoNames == {RepoP, RepoQ}

\* A name a repository may be given: the parser asks for a name and a
\* base_path and for nothing about them
RepoDot == <<".", "q">>

\* config.repos, read by getConfig at every call: the repositories that are
\* configured, in their order; git holds the state of each of them
repos ==
    SelectSeq(<< [name |-> RepoP, base_path |-> << <<"s">>, RepoP >>],
                 [name |-> RepoQ, base_path |-> << <<"s">>, RepoQ >>],
                 [name |-> RepoDot, base_path |-> << <<"s">>, RepoDot >>] >>,
              LAMBDA r : r.name \in DOMAIN git)

----------------------------------------------------------------------------
(* git/operations.ts, and what the git binary does with each command.
   fail names the git command that fails in this step for a reason outside
   the model (a lock, the network, a hook), "none" when none does. *)

GitCommands ==
    {"worktree list", "fetch", "show-ref", "ls-remote", "branch",
     "worktree add", "worktree add --track", "rev-parse",
     "worktree remove", "worktree remove --force", "branch -D"}

\* Mutant: the .git marker is not looked for
worktreeExistsAnyDirectory(f, path) == existsSync(f, path)

worktreeExists(f, path) == existsSync(f, path) /\ existsSync(f, Append(path, DotGit))

\* Mutant: the branch is compared with the full ref name, which never matches
findWorktreeByBranchFullRef(g, branch, fail) ==
    IF fail = "worktree list" THEN <<>>
    ELSE IF \E w \in g.wt : w.branch = <<"refs/heads/">> \o branch
    THEN <<(CHOOSE w \in g.wt : w.branch = <<"refs/heads/">> \o branch).path>>
    ELSE <<>>

\* findWorktreeByBranch: the path of the worktree branch is checked out in,
\* <<>> (null) when there is none or when listWorktrees throws
findWorktreeByBranch(g, branch, fail) ==
    IF fail = "worktree list" THEN <<>>
    ELSE IF \E w \in g.wt : w.branch = branch
    THEN <<(CHOOSE w \in g.wt : w.branch = branch).path>>
    ELSE <<>>

\* Mutant: the ref that is verified is the remote-tracking one
localBranchExistsRemoteRef(g, branch, fail) == fail # "show-ref" /\ branch \in g.remote

\* Mutant: a branch counts as local only while a worktree holds it
localBranchExistsAttached(g, branch, fail) ==
    fail # "show-ref" /\ \E w \in g.wt : w.branch = branch

localBranchExists(g, branch, fail) == fail # "show-ref" /\ branch \in g.local

\* git ls-remote --heads origin <name> lists the heads whose last path
\* components are <name>; result.includes(name) is then true
lsRemote(g, branch) ==
    {b \in g.remote :
        \/ b = branch
        \/ /\ Len(b) > Len(branch) + 1
           /\ SubSeq(b, Len(b) - Len(branch), Len(b)) = <<"/">> \o branch}

remoteBranchExists(g, branch, fail) ==
    fail # "ls-remote" /\ \E b \in lsRemote(g, branch) : Contains(b, branch)

\* git branch <name> origin/<base>
createBranch(g, branch, startBranch, fail) ==
    IF fail = "branch" \/ branch \in g.local \/ startBranch \notin g.remote
    THEN [ok |-> FALSE, g |-> g]
    ELSE [ok |-> TRUE,
          g |-> [g EXCEPT !.local = @ \cup {branch},
                          !.start = @ \cup {<<branch, startBranch>>}]]

\* What git puts in a new worktree: the .git marker and the files of the
\* repository
Checkout(g, f, path) ==
    mkdirSync(f, Append(path, DotGit))
        \cup UNION {mkdirSync(f, Append(path, file)) : file \in g.files}

PathFree(g, f, path) ==
    /\ ~existsSync(f, path)
    /\ \A w \in g.wt : w.path # path

\* git worktree add <path> <branch>
addWorktree(g, f, path, branch, fail) ==
    IF \/ fail = "worktree add"
       \/ branch \notin g.local
       \/ \E w \in g.wt : w.branch = branch
       \/ ~PathFree(g, f, path)
    THEN [ok |-> FALSE, g |-> g, fs |-> f]
    ELSE [ok |-> TRUE,
          g |-> [g EXCEPT !.wt = @ \cup {[path |-> path, branch |-> branch]}],
          fs |-> Checkout(g, f, path)]

\* git worktree add --track -b <branch> <path> origin/<branch>
addWorktreeWithTracking(g, f, path, branch, fail) ==
    IF \/ fail = "worktree add --track"
       \/ branch \in g.local
       \/ branch \notin g.remote
       \/ ~PathFree(g, f, path)
    THEN [ok |-> FALSE, g |-> g, fs |-> f]
    ELSE [ok |-> TRUE,
          g |-> [g EXCEPT !.local = @ \cup {branch},
                          !.start = @ \cup {<<branch, branch>>},
                          !.wt = @ \cup {[path |-> path, branch |-> branch]}],
          fs |-> Checkout(g, f, path)]

\* git rev-parse --abbrev-ref HEAD in a worktree: <<>> when it throws
getCurrentBranch(g, path, fail) ==
    IF fail # "rev-parse" /\ \E w \in g.wt : w.path = path
    THEN (CHOOSE w \in g.wt : w.path = path).branch
    ELSE <<>>

\* The arguments removeWorktree gives git for its force argument
WorktreeRemove(force) ==
    IF force THEN "worktree remove --force" ELSE "worktree remove"

\* git worktree remove [--force] <path>; a worktree with entries git does
\* not track is removed with --force only
removeWorktree(g, f, path, force, fail) ==
    IF \/ fail = WorktreeRemove(force)
       \/ ~\E w \in g.wt : w.path = path
       \/ ~worktreeExists(f, path)
       \/ ~force /\ readdirSync(f, path) \ ({DotGit} \cup g.files) # {}
    THEN [ok |-> FALSE, g |-> g, fs |-> f]
    ELSE [ok |-> TRUE,
          g |-> [g EXCEPT !.wt = {w \in @ : w.path # path}],
          fs |-> rmSync(f, path)]

\* git branch -D <name>
deleteLocalBranch(g, branch, fail) ==
    IF \/ fail = "branch -D"
       \/ branch \notin g.local
       \/ \E w \in g.wt : w.branch = branch
    THEN [ok |-> FALSE, g |-> g]
    ELSE [ok |-> TRUE,
          g |-> [g EXCEPT !.local = @ \ {branch},
                          !.start = {p \in @ : p[1] # branch}]]

----------------------------------------------------------------------------
(* commands/switch.ts: create *)

\* Mutant: the backslash is not looked for
validateLabelSwitchNoBackslash(label) ==
    IF Contains(label, <<".", ".">>) \/ Contains(label, <<"/">>)
    THEN "Invalid label: cannot contain path separators or traversal sequences"
    ELSE IF isAbsolute(label)
    THEN "Invalid label: cannot be an absolute path"
    ELSE IF Len(label) = 0 \/ TrimIsEmpty(label)
    THEN "Invalid label: cannot be empty"
    ELSE "ok"

\* switch.ts has its own copy of validateLabel
validateLabelSwitch(label) ==
    IF Contains(label, <<".", ".">>) \/ Contains(label, <<"/">>)
          \/ Contains(label, <<"\\">>)
    THEN "Invalid label: cannot contain path separators or traversal sequences"
    ELSE IF isAbsolute(label)
    THEN "Invalid label: cannot be an absolute path"
    ELSE IF Len(label) = 0 \/ TrimIsEmpty(label)
    THEN "Invalid label: cannot be empty"
    ELSE "ok"

\* The characters of the regular expression; "backtick" stands for the
\* backquote character
ShellMeta == {";", "&", "|", "backtick", "$", "(", ")", "<", ">", "\\"}

validateBranchName(branch) ==
    IF Len(branch) = 0 \/ TrimIsEmpty(branch)
    THEN "Branch name cannot be empty"
    ELSE IF \E i \in 1..Len(branch) : branch[i] \in ShellMeta
    THEN "Invalid branch name: contains shell metacharacters"
    ELSE IF branch[1] = "-"
    THEN "Invalid branch name: cannot start with -"
    ELSE "ok"

Result(repoName, success, status, message) ==
    [repoName |-> repoName, success |-> success, status |-> status,
     message |-> message]

\* What one step of a call gives: the result, the disk and the repository
\* after it, and the git commands it issued
Step(result, f, g, cmds) == [result |-> result, fs |-> f, g |-> g, cmds |-> cmds]

\* ensureWorktree from the dry run on: the path is free and the branch is in
\* no worktree that the list showed
ensureWorktreeAdd(repoName, g, f, worktreePath, branch, baseBranch, dryRun, fail) ==
    IF dryRun
    THEN Step(Result(repoName, TRUE, "dry_run", "Would create worktree"),
              f, g, <<"worktree list">>)
    ELSE IF fail = "fetch"
    THEN Step(Result(repoName, FALSE, "error", "Failed to create worktree"),
              f, g, <<"worktree list", "fetch">>)
    ELSE
      LET branchExistsLocally == localBranchExists(g, branch, fail)
          branchExistsRemotely == remoteBranchExists(g, branch, fail)
          read == <<"worktree list", "fetch", "show-ref", "ls-remote">>
          failed == Result(repoName, FALSE, "error", "Failed to create worktree")
      IN  IF ~branchExistsLocally /\ ~branchExistsRemotely
          THEN LET cb == createBranch(g, branch, baseBranch, fail)
                   aw == addWorktree(cb.g, f, worktreePath, branch, fail)
               IN  IF ~cb.ok
                   THEN Step(failed, f, g, read \o <<"branch">>)
                   ELSE IF ~aw.ok
                   THEN Step(failed, f, cb.g, read \o <<"branch", "worktree add">>)
                   ELSE Step(Result(repoName, TRUE, "created_new",
                                    "Created new branch and added worktree"),
                             aw.fs, aw.g,
                             read \o <<"branch", "worktree add",
                                       "branch --unset-upstream">>)
          ELSE IF branchExistsLocally
          THEN LET aw == addWorktree(g, f, worktreePath, branch, fail)
               IN  IF ~aw.ok
                   THEN Step(failed, f, g, read \o <<"worktree add">>)
                   ELSE Step(Result(repoName, TRUE, "added_local",
                                    "Added worktree for existing local branch"),
                             aw.fs, aw.g,
                             read \o <<"worktree add", "branch --unset-upstream">>)
          ELSE LET aw == addWorktreeWithTracking(g, f, worktreePath, branch, fail)
               IN  IF ~aw.ok
                   THEN Step(failed, f, g, read \o <<"worktree add --track">>)
                   ELSE Step(Result(repoName, TRUE, "added_remote",
                                    "Added worktree and tracking remote branch"),
                             aw.fs, aw.g, read \o <<"worktree add --track">>)

\* Mutant: the conflict check comes before the check of the path
ensureWorktreeConflictFirst(repoName, g, f, worktreePath, branch, baseBranch, dryRun, fail) ==
    IF findWorktreeByBranch(g, branch, fail) # <<>>
    THEN Step(Result(repoName, FALSE, "already_in_use", "already checked out"),
              f, g, <<"worktree list">>)
    ELSE IF existsSync(f, worktreePath)
    THEN Step(Result(repoName, TRUE, "already_exists", "Worktree already exists"),
              f, g, <<"worktree list">>)
    ELSE ensureWorktreeAdd(repoName, g, f, worktreePath, branch, baseBranch,
                           dryRun, fail)

ensureWorktree(repoName, g, f, worktreePath, branch, baseBranch, dryRun, fail) ==
    IF existsSync(f, worktreePath)
    THEN Step(Result(repoName, TRUE, "already_exists", "Worktree already exists"),
              f, g, <<>>)
    ELSE IF findWorktreeByBranch(g, branch, fail) # <<>>
    THEN Step(Result(repoName, FALSE, "already_in_use", "already checked out"),
              f, g, <<"worktree list">>)
    ELSE ensureWorktreeAdd(repoName, g, f, worktreePath, branch, baseBranch,
                           dryRun, fail)

\* A value that is empty or undefined in the source is the empty string here.
None == <<>>

Or(a, b) == IF a # None THEN a ELSE b

\* Mutant: the configured base branch wins over the override
resolveBaseBranchConfigFirst(override, configured) ==
    Or(configured, Or(override, <<"m", "a", "s", "t", "e", "r">>))

\* options.baseBranchMap?.[repo.name] || config.base_branch || 'master'
resolveBaseBranch(override, configured) ==
    Or(override, Or(configured, <<"m", "a", "s", "t", "e", "r">>))

\* The body of the loop of switchToWorktree for one repository that passes
\* the repo filter
switchRepo(options, repo, g, f, fail) ==
    LET branch == Or(options.branchMap[repo.name], options.default)
        labelFolder == Or(options.label, branch)
        worktreePath == join(join(worktrees_dir, labelFolder), repo.name)
        parentDir == dirname(worktreePath)
        made == IF existsSync(f, parentDir) THEN f ELSE mkdirSync(f, parentDir)
        baseBranch == resolveBaseBranch(options.baseBranchMap[repo.name],
                                        base_branch)
    IN  IF branch = None
        THEN Step(Result(repo.name, FALSE, "skipped", "No branch specified"),
                  f, g, <<>>)
        ELSE IF validateBranchName(branch) # "ok"
        THEN Step(Result(repo.name, FALSE, "error", validateBranchName(branch)),
                  f, g, <<>>)
        ELSE IF validateLabelSwitch(labelFolder) # "ok"
        THEN Step(Result(repo.name, FALSE, "error", validateLabelSwitch(labelFolder)),
                  f, g, <<>>)
        ELSE ensureWorktree(repo.name, g, made, worktreePath, branch, baseBranch,
                            options.dryRun, fail)

Idle == [op |-> "idle"]

\* On to the next repository of the n to process, or out of the loop
Skip(c, n) ==
    [c EXCEPT !.idx = @ + 1, !.at = IF c.idx + 1 > n THEN "after" ELSE "loop"]

\* Mutant: an error result ends the loop
AdvanceUntilError(c, result, failed, n) ==
    [c EXCEPT !.idx = @ + 1,
              !.at = IF c.idx + 1 > n \/ result.status = "error"
                     THEN "after" ELSE "loop",
              !.results = Append(@, result),
              !.fails = Append(@, failed)]

\* results.push(result) and on; failed is the command that failed in the step
Advance(c, result, failed, n) ==
    [Skip(c, n) EXCEPT !.results = Append(@, result), !.fails = Append(@, failed)]

\* The command that failed in a step, "none" when the step did not issue it
Failed(fail, cmds) ==
    IF \E i \in 1..Len(cmds) : cmds[i] = fail THEN fail ELSE "none"

Log(repoName, cmds) == [i \in 1..Len(cmds) |-> [repo |-> repoName, cmd |-> cmds[i]]]

\* switchToWorktree, up to the loop. at is "loop" while repositories are
\* processed and "return" when results is what the call returns.
switchBegin(options) ==
    /\ call = Idle
    /\ gitCalls' = <<>>
    /\ IF options.label # None /\ validateLabelSwitch(options.label) # "ok"
       THEN call' = [op |-> "create", options |-> options, at |-> "return",
                     idx |-> 1, fails |-> <<>>,
                     results |-> <<Result(None, FALSE, "error",
                                          validateLabelSwitch(options.label))>>,
                     pre |-> [fs |-> fs, git |-> git]]
       ELSE call' = [op |-> "create", options |-> options, at |-> "loop",
                     idx |-> 1, fails |-> <<>>, results |-> <<>>,
                     pre |-> [fs |-> fs, git |-> git]]
    /\ last' = [op |-> "switchBegin"]
    /\ UNCHANGED <<fs, git, buildVars>>

\* One pass of the loop: the next configured repository
switchNext(fail) ==
    /\ call.op = "create"
    /\ call.at = "loop"
    /\ LET repo == repos[call.idx]
           r == switchRepo(call.options, repo, git[repo.name], fs, fail)
       IN  IF call.options.repo # None /\ repo.name # call.options.repo
           THEN /\ call' = Skip(call, Len(repos))
                /\ UNCHANGED <<fs, git, gitCalls>>
           ELSE /\ call' = Advance(call, r.result, Failed(fail, r.cmds), Len(repos))
                /\ fs' = r.fs
                /\ git' = [git EXCEPT ![repo.name] = r.g]
                /\ gitCalls' = gitCalls \o Log(repo.name, r.cmds)
    /\ last' = [op |-> "switchNext"]
    /\ UNCHANGED buildVars

\* return results
switchReturn ==
    /\ call.op = "create"
    /\ call.at \in {"after", "return"}
    /\ call' = Idle
    /\ gitCalls' = <<>>
    /\ last' = [op |-> "switchReturn"]
    /\ UNCHANGED <<fs, git, buildVars>>

----------------------------------------------------------------------------
(* commands/clean.ts *)

validateNoPathTraversal(userInput) ==
    IF Contains(userInput, <<".", ".">>) \/ Contains(userInput, <<"/">>)
          \/ Contains(userInput, <<"\\">>)
    THEN "Invalid label: cannot contain path separators or traversal sequences"
    ELSE IF isAbsolute(userInput)
    THEN "Invalid label: cannot be an absolute path"
    ELSE IF Len(userInput) = 0 \/ TrimIsEmpty(userInput)
    THEN "Invalid label: cannot be empty"
    ELSE "ok"

XcodeExtensions ==
    {<<".", "x", "c", "o", "d", "e", "p", "r", "o", "j">>,
     <<".", "x", "c", "w", "o", "r", "k", "s", "p", "a", "c", "e">>}

IsProjectFile(entry) == \E ext \in XcodeExtensions : EndsWith(entry, ext)

isIOSProject(f, dirPath) ==
    existsSync(f, dirPath) /\ \E entry \in readdirSync(f, dirPath) : IsProjectFile(entry)

\* The name of the project file without its extension, <<>> (null) when
\* the directory holds none
getIOSProjectName(f, dirPath) ==
    IF isIOSProject(f, dirPath)
    THEN LET projectFile == CHOOSE entry \in readdirSync(f, dirPath) :
                                IsProjectFile(entry)
             ext == CHOOSE e \in XcodeExtensions : EndsWith(projectFile, e)
         IN  SubSeq(projectFile, 1, Len(projectFile) - Len(ext))
    ELSE <<>>

\* os.homedir()/Library/Developer/Xcode/DerivedData
derivedDataDir == << <<"h">>, <<"D">> >>

\* Mutant: the cache directory goes in a dry run too

\* cleanIOSDerivedData: the cache directory of the project (path, <<>> for
\* null) and the disk after it
cleanIOSDerivedDataAlways(f, worktreePath, dryRun) ==
    LET projectName == getIOSProjectName(f, worktreePath)
        found == {entry \in readdirSync(f, derivedDataDir) :
                      StartsWith(entry, projectName \o <<"-">>)}
    IN  IF projectName = <<>> \/ ~existsSync(f, derivedDataDir) \/ found = {}
        THEN [path |-> <<>>, fs |-> f]
        ELSE LET derivedDataPath == Append(derivedDataDir, CHOOSE e \in found : TRUE)
             IN  [path |-> derivedDataPath, fs |-> rmSync(f, derivedDataPath)]

cleanIOSDerivedData(f, worktreePath, dryRun) ==
    LET projectName == getIOSProjectName(f, worktreePath)
        found == {entry \in readdirSync(f, derivedDataDir) :
                      StartsWith(entry, projectName \o <<"-">>)}
    IN  IF projectName = <<>> \/ ~existsSync(f, derivedDataDir) \/ found = {}
        THEN [path |-> <<>>, fs |-> f]
        ELSE LET derivedDataPath == Append(derivedDataDir, CHOOSE e \in found : TRUE)
             IN  [path |-> derivedDataPath,
                  fs |-> IF dryRun THEN f ELSE rmSync(f, derivedDataPath)]

\* Mutant: a failed removal ends the pass with error, forced or not
cleanWorktreeStopsOnFailure(repoName, g, f, worktreePath, force, dryRun, deleteBranches, fail) ==
    IF ~existsSync(f, worktreePath)
    THEN Step(Result(repoName, TRUE, "not_found", "Path not found"), f, g, <<>>)
    ELSE
      LET isWorktree == worktreeExists(f, worktreePath)
          asked == deleteBranches /\ isWorktree
          branchName == IF asked THEN getCurrentBranch(g, worktreePath, fail)
                        ELSE None
          rw == IF isWorktree THEN removeWorktree(g, f, worktreePath, TRUE, fail)
                ELSE [ok |-> TRUE, g |-> g, fs |-> f]
          cmds == (IF asked THEN <<"rev-parse">> ELSE <<>>)
                     \o (IF isWorktree THEN <<WorktreeRemove(TRUE)>> ELSE <<>>)
          db == deleteLocalBranch(rw.g, branchName, fail)
          cache == IF isIOSProject(rw.fs, worktreePath)
                   THEN cleanIOSDerivedData(rw.fs, worktreePath, dryRun).fs
                   ELSE rw.fs
      IN  IF ~isWorktree /\ ~force
          THEN Step(Result(repoName, FALSE, "not_worktree", "Not a Git worktree"),
                    f, g, <<>>)
          ELSE IF dryRun
          THEN Step(Result(repoName, TRUE, "dry_run", "Would delete"),
                    IF isIOSProject(f, worktreePath)
                    THEN cleanIOSDerivedData(f, worktreePath, TRUE).fs
                    ELSE f,
                    g, <<>>)
          ELSE IF ~rw.ok
          THEN Step(Result(repoName, FALSE, "error", "Failed to remove Git worktree"),
                    f, g, cmds)
          ELSE IF existsSync(cache, worktreePath)
          THEN IF deleteBranches /\ branchName # None
               THEN Step(Result(repoName, TRUE, "deleted",
                                IF db.ok THEN "Also deleted local branch"
                                ELSE "Failed to delete local branch"),
                         rmSync(cache, worktreePath), db.g,
                         cmds \o <<"branch -D">>)
               ELSE Step(Result(repoName, TRUE, "deleted", "Successfully deleted"),
                         rmSync(cache, worktreePath), rw.g, cmds)
          ELSE Step(Result(repoName, TRUE, "deleted",
                           "Worktree removed (folder already deleted)"),
                    cache, rw.g, cmds)

cleanWorktree(repoName, g, f, worktreePath, force, dryRun, deleteBranches, fail) ==
    IF ~existsSync(f, worktreePath)
    THEN Step(Result(repoName, TRUE, "not_found", "Path not found"), f, g, <<>>)
    ELSE
      LET isWorktree == worktreeExists(f, worktreePath)
          asked == deleteBranches /\ isWorktree
          branchName == IF asked THEN getCurrentBranch(g, worktreePath, fail)
                        ELSE None
          rw == IF isWorktree THEN removeWorktree(g, f, worktreePath, TRUE, fail)
                ELSE [ok |-> TRUE, g |-> g, fs |-> f]
          cmds == (IF asked THEN <<"rev-parse">> ELSE <<>>)
                     \o (IF isWorktree THEN <<WorktreeRemove(TRUE)>> ELSE <<>>)
          db == deleteLocalBranch(rw.g, branchName, fail)
          cache == IF isIOSProject(rw.fs, worktreePath)
                   THEN cleanIOSDerivedData(rw.fs, worktreePath, dryRun).fs
                   ELSE rw.fs
      IN  IF ~isWorktree /\ ~force
          THEN Step(Result(repoName, FALSE, "not_worktree", "Not a Git worktree"),
                    f, g, <<>>)
          ELSE IF dryRun
          THEN Step(Result(repoName, TRUE, "dry_run", "Would delete"),
                    IF isIOSProject(f, worktreePath)
                    THEN cleanIOSDerivedData(f, worktreePath, TRUE).fs
                    ELSE f,
                    g, <<>>)
          ELSE IF ~rw.ok /\ ~force
          THEN Step(Result(repoName, FALSE, "error", "Failed to remove Git worktree"),
                    f, g, cmds)
          ELSE IF existsSync(cache, worktreePath)
          THEN IF deleteBranches /\ branchName # None
               THEN Step(Result(repoName, TRUE, "deleted",
                                IF db.ok THEN "Also deleted local branch"
                                ELSE "Failed to delete local branch"),
                         rmSync(cache, worktreePath), db.g,
                         cmds \o <<"branch -D">>)
               ELSE Step(Result(repoName, TRUE, "deleted", "Successfully deleted"),
                         rmSync(cache, worktreePath), rw.g, cmds)
          ELSE Step(Result(repoName, TRUE, "deleted",
                           "Worktree removed (folder already deleted)"),
                    cache, rw.g, cmds)

\* Mutant: the separator is left out of the prefix
InsideWorktreesDirNoSep(labelFolder) ==
    StartsWith(PathString(normalize(labelFolder)),
               PathString(normalize(worktrees_dir)))

\* The double check of clean: the normalized label folder starts with the
\* normalized worktrees_dir followed by path.sep
InsideWorktreesDir(labelFolder) ==
    StartsWith(PathString(normalize(labelFolder)),
               PathString(normalize(worktrees_dir)) \o <<"/">>)

\* Mutant: clean without the repo filter
reposToCleanAll(options) == repos

\* Mutant: the repositories are cleaned last to first
reposToCleanReversed(options) ==
    LET picked == IF options.repo # None
                  THEN SelectSeq(repos, LAMBDA r : r.name = options.repo)
                  ELSE repos
    IN  [i \in 1..Len(picked) |-> picked[Len(picked) + 1 - i]]

reposToClean(options) ==
    IF options.repo # None
    THEN SelectSeq(repos, LAMBDA r : r.name = options.repo)
    ELSE repos

\* clean, up to the loop
cleanBegin(options) ==
    LET labelFolder == join(worktrees_dir, options.label)
        killed == KillAll(activeBuilds, procs, options.label)
        started == [op |-> "clean", options |-> options, at |-> "loop", idx |-> 1,
                    fails |-> <<>>, results |-> <<>>, labelFolder |-> labelFolder,
                    pre |-> [fs |-> fs, git |-> git]]
        return(result) ==
            call' = [started EXCEPT !.at = "return", !.results = <<result>>]
    IN  /\ call = Idle
        /\ gitCalls' = <<>>
        /\ IF validateNoPathTraversal(options.label) # "ok"
           THEN /\ return(Result(None, FALSE, "error",
                                 validateNoPathTraversal(options.label)))
                /\ UNCHANGED <<activeBuilds, procs>>
           ELSE /\ activeBuilds' = killed.builds
                /\ procs' = killed.procs
                /\ IF ~InsideWorktreesDir(labelFolder)
                   THEN return(Result(None, FALSE, "error",
                                      "Security error: path traversal detected"))
                   ELSE IF ~existsSync(fs, labelFolder)
                   THEN return(Result(None, FALSE, "not_found",
                                      "No worktree directory found"))
                   ELSE IF reposToClean(options) = <<>>
                   THEN call' = [started EXCEPT !.at = "after"]
                   ELSE call' = started
        /\ last' = [op |-> "cleanBegin"]
        /\ UNCHANGED <<fs, git, lineNo, received>>

\* One pass of the loop of clean
cleanNext(fail) ==
    /\ call.op = "clean"
    /\ call.at = "loop"
    /\ LET repo == reposToClean(call.options)[call.idx]
           r == cleanWorktree(repo.name, git[repo.name], fs,
                              join(call.labelFolder, repo.name),
                              call.options.force, call.options.dryRun,
                              call.options.deleteBranches, fail)
       IN  /\ call' = Advance(call, r.result, Failed(fail, r.cmds),
                               Len(reposToClean(call.options)))
           /\ fs' = r.fs
           /\ git' = [git EXCEPT ![repo.name] = r.g]
           /\ gitCalls' = gitCalls \o Log(repo.name, r.cmds)
    /\ last' = [op |-> "cleanNext"]
    /\ UNCHANGED buildVars

\* Mutant: the label folder is left where it is
cleanAfterKeepsFolder ==
    /\ call.op = "clean"
    /\ call.at = "after"
    /\ call' = [call EXCEPT !.at = "return"]
    /\ last' = [op |-> "cleanAfter"]
    /\ UNCHANGED <<fs, git, gitCalls, buildVars>>

\* Mutant: hidden entries count as entries
cleanAfterCountsHidden ==
    /\ call.op = "clean"
    /\ call.at = "after"
    /\ LET empty == /\ ~call.options.dryRun
                    /\ existsSync(fs, call.labelFolder)
                    /\ readdirSync(fs, call.labelFolder) = {}
       IN  /\ fs' = IF empty THEN rmSync(fs, call.labelFolder) ELSE fs
           /\ call' = [call EXCEPT
                  !.at = "return",
                  !.results = IF empty
                              THEN Append(@, Result(None, TRUE, "deleted",
                                                    "Deleted empty label folder"))
                              ELSE @]
    /\ last' = [op |-> "cleanAfter"]
    /\ UNCHANGED <<git, gitCalls, buildVars>>

\* After the loop: the label folder goes when nothing visible is left in it
cleanAfter ==
    /\ call.op = "clean"
    /\ call.at = "after"
    /\ LET visibleEntries == {e \in readdirSync(fs, call.labelFolder) :
                                  ~StartsWith(e, <<".">>)}
           empty == /\ ~call.options.dryRun
                    /\ existsSync(fs, call.labelFolder)
                    /\ visibleEntries = {}
       IN  /\ fs' = IF empty THEN rmSync(fs, call.labelFolder) ELSE fs
           /\ call' = [call EXCEPT
                  !.at = "return",
                  !.results = IF empty
                              THEN Append(@, Result(None, TRUE, "deleted",
                                                    "Deleted empty label folder"))
                              ELSE @]
    /\ last' = [op |-> "cleanAfter"]
    /\ UNCHANGED <<git, gitCalls, buildVars>>

\* return results
cleanReturn ==
    /\ call.op = "clean"
    /\ call.at = "return"
    /\ call' = Idle
    /\ gitCalls' = <<>>
    /\ last' = [op |-> "cleanReturn"]
    /\ UNCHANGED <<fs, git, buildVars>>

----------------------------------------------------------------------------
(* commands/list.ts *)

\* getUncommittedCount: the modified, staged and untracked files of a
\* worktree, here the entries git did not put there; 0 when status throws
getUncommittedCount(g, f, path, fail) ==
    IF fail = "status" THEN 0
    ELSE Cardinality(readdirSync(f, path) \ ({DotGit} \cup g.files))

RepoWorktreeInfo(name, branch, path, clean, uncommitted, exists) ==
    [name |-> name, branch |-> branch, path |-> path, clean |-> clean,
     uncommitted |-> uncommitted, exists |-> exists]

\* The entry of getWorktreeInfo for one repository
getRepoInfo(repo, f, g, worktreeDir, fail) ==
    LET repoWorktreePath == join(worktreeDir, repo.name)
        branch == getCurrentBranch(g, repoWorktreePath, fail)
        uncommittedCount == getUncommittedCount(g, f, repoWorktreePath, fail)
    IN  IF worktreeExists(f, repoWorktreePath)
        THEN IF branch = <<>>
             THEN RepoWorktreeInfo(repo.name, <<"?">>, repoWorktreePath,
                                   FALSE, 0, TRUE)
             ELSE RepoWorktreeInfo(repo.name, branch, repoWorktreePath,
                                   uncommittedCount = 0, uncommittedCount, TRUE)
        ELSE RepoWorktreeInfo(repo.name, <<>>, repoWorktreePath, TRUE, 0, FALSE)

\* getWorktreeInfo: <<>> (null) when the label has no directory
getWorktreeInfo(label, f, gs, fail) ==
    LET worktreeDir == join(worktrees_dir, label)
    IN  IF ~existsSync(f, worktreeDir) THEN <<>>
        ELSE <<[label |-> label,
                repos |-> [i \in 1..Len(repos) |->
                              getRepoInfo(repos[i], f, gs[repos[i].name],
                                          worktreeDir, fail)]]>>

\* Mutant: list without the filter of the hidden directories
listWithHidden(f, gs, fail) ==
    IF ~existsSync(f, worktrees_dir) THEN {}
    ELSE {getWorktreeInfo(label, f, gs, fail)[1] :
              label \in {l \in readdirSync(f, worktrees_dir) :
                             getWorktreeInfo(l, f, gs, fail) # <<>>}}

\* list: the groups of the directories of worktrees_dir that are not
\* hidden; the order is the one readdir gives, which the model leaves open
list(f, gs, fail) ==
    IF ~existsSync(f, worktrees_dir) THEN {}
    ELSE LET labels == {name \in readdirSync(f, worktrees_dir) :
                            ~StartsWith(name, <<".">>)}
         IN  {getWorktreeInfo(label, f, gs, fail)[1] :
                  label \in {l \in labels : getWorktreeInfo(l, f, gs, fail) # <<>>}}

\* A call of list; it reads and may come at any time
listAll(fail) ==
    /\ last' = [op |-> "list", fail |-> fail, value |-> list(fs, git, fail)]
    /\ UNCHANGED <<fs, git, call, gitCalls, buildVars>>

\* What happens outside the tool: a file is written in a worktree
Edit(path) ==
    /\ call = Idle
    /\ worktreeExists(fs, path)
    /\ ~existsSync(fs, Append(path, <<"u">>))
    /\ fs' = mkdirSync(fs, Append(path, <<"u">>))
    /\ last' = [op |-> "edit"]
    /\ UNCHANGED <<git, call, gitCalls, buildVars>>

----------------------------------------------------------------------------
(* What happens outside the tool: a directory is made under worktrees_dir *)

Outside(path) ==
    /\ call = Idle
    /\ ~existsSync(fs, path)
    /\ fs' = mkdirSync(fs, path)
    /\ last' = [op |-> "outside"]
    /\ UNCHANGED <<git, call, gitCalls, buildVars>>

----------------------------------------------------------------------------
(* The initial state: nothing built, nothing created. The repositories are
   cloned at their base paths with the base branch checked out. *)

\* The files at the top of a checkout: repository p holds an Xcode project
Files(repoName) ==
    IF repoName = RepoP
    THEN {<<"P", ".", "x", "c", "o", "d", "e", "p", "r", "o", "j">>}
    ELSE {}

Remote(repoName) ==
    IF repoName = RepoP THEN {base_branch, <<"y">>} ELSE {base_branch}

Init ==
    /\ activeBuilds = <<>>
    /\ procs = <<>>
    /\ lineNo = 0
    /\ received = <<>>
    /\ fs = {worktrees_dir}
    /\ git = [n \in RepoNames |->
                 [local |-> {base_branch},
                  remote |-> Remote(n),
                  files |-> Files(n),
                  start |-> {<<base_branch, base_branch>>},
                  wt |-> {[path |-> << <<"s">>, n >>, branch |-> base_branch]}]]
    /\ call = Idle
    /\ gitCalls = <<>>
    /\ last = [op |-> "init"]

----------------------------------------------------------------------------
(* Inputs *)

LA == <<"a">>
LB == <<"b">>
LDot == <<".">>
InvalidLabels ==
    {<<".", ".">>, <<"a", "/", "b">>, <<"a", "\\", "b">>, <<"/", "a">>, <<" ">>}

BrX == <<"x">>
BrY == <<"y">>

NoMap == [n \in RepoNames |-> None]

Fails == GitCommands \cup {"none"}

SwitchOptions(labels, branches, filters) ==
    [label : labels, default : branches, repo : filters, dryRun : BOOLEAN,
     branchMap : {NoMap}, baseBranchMap : {NoMap}]

CleanOptions(labels, filters) ==
    [label : labels, repo : filters, force : BOOLEAN, dryRun : BOOLEAN,
     deleteBranches : BOOLEAN]

----------------------------------------------------------------------------
(* The worktree specification: create and clean calls, one at a time *)

TreeLabels == {LA, LB}
TreeBranches == {BrX, base_branch, <<"-", "x">>, None}

TreeSwitchOptions ==
    SwitchOptions(TreeLabels, TreeBranches, {None, RepoQ})
        \cup {o \in SwitchOptions(InvalidLabels, {BrX}, {None}) : ~o.dryRun}

TreeCleanOptions ==
    CleanOptions(TreeLabels, {None, RepoQ})
        \cup {o \in CleanOptions(InvalidLabels \cup {LDot}, {None}) :
                  ~o.dryRun /\ ~o.deleteBranches}

Next ==
    \/ \E o \in TreeSwitchOptions : switchBegin(o)
    \/ \E fail \in Fails : switchNext(fail)
    \/ switchReturn
    \/ \E o \in TreeCleanOptions : cleanBegin(o)
    \/ \E fail \in Fails : cleanNext(fail)
    \/ cleanAfter
    \/ cleanReturn
    \/ \E n \in RepoNames : Outside(<<worktrees_dir[1], LA, n>>)

Spec == Init /\ [][Next]_vars

----------------------------------------------------------------------------
(* The build specification: requests, completions and cancellations of
   builds under any interleaving; no output *)

BuildLabels == {LA, <<".", ".">>}

\* The types a request or a cancellation is made with: every type for a
\* valid label, one for an invalid label
TypesFor(label) ==
    IF validateLabel(label) = "ok" THEN BuildTypes ELSE {"build_android"}

NextBuild ==
    \/ \E label \in BuildLabels : \E type \in TypesFor(label) :
           runBuildProcess(label, type, MaxProcs)
    \/ \E label \in BuildLabels : buildIOS(label, MaxProcs)
    \/ \E pid \in 1..Len(procs), code \in {0, 1} : runBuildProcessClose(pid, code)
    \/ \E pid \in 1..Len(procs), code \in {0, 1}, exportOk \in BOOLEAN :
           buildIOSClose(pid, code, exportOk)
    \/ \E label \in BuildLabels : \E type \in TypesFor(label) : killBuild(label, type)
    \/ \E label \in BuildLabels : killAllBuildsForLabel(label)

SpecBuild == Init /\ [][NextBuild]_vars

----------------------------------------------------------------------------
(* The output specification: one build that writes a long output *)

\* output lines written in one behaviour of the output specification
MaxOutput == 503

NextOutput ==
    \/ runBuildProcess(LA, "build_android", MaxProcs)
    \/ \E pid \in 1..Len(procs), pattern \in Patterns :
           OnData(pid, "stderr", pattern, MaxOutput)

SpecOutput == Init /\ [][NextOutput]_vars

----------------------------------------------------------------------------
(* The cleanup specification: builds are started and end while labels are
   cleaned; the directories cleaned are made outside the tool *)

CleanupTypes == {"pod_install", "build_android"}

CleanupOptions ==
    {o \in CleanOptions({LA}, {None}) : ~o.deleteBranches /\ ~o.dryRun}

NextCleanup ==
    \/ \E label \in TreeLabels, type \in CleanupTypes :
           runBuildProcess(label, type, MaxProcs)
    \/ \E pid \in 1..Len(procs) : runBuildProcessClose(pid, 0)
    \/ \E n \in RepoNames : Outside(<<worktrees_dir[1], LA, n>>)
    \/ \E o \in CleanupOptions : cleanBegin(o)
    \/ cleanNext("none")
    \/ cleanAfter
    \/ cleanReturn

SpecCleanup == Init /\ [][NextCleanup]_vars

----------------------------------------------------------------------------
(* The cache specification: Xcode has built the project of repository p, so
   that its build cache is on the disk; one label is created and cleaned *)

InitCache ==
    /\ activeBuilds = <<>>
    /\ procs = <<>>
    /\ lineNo = 0
    /\ received = <<>>
    /\ fs = mkdirSync({worktrees_dir}, Append(derivedDataDir, <<"P", "-", "1">>))
    /\ git = [n \in RepoNames |->
                 [local |-> {base_branch},
                  remote |-> Remote(n),
                  files |-> Files(n),
                  start |-> {<<base_branch, base_branch>>},
                  wt |-> {[path |-> << <<"s">>, n >>, branch |-> base_branch]}]]
    /\ call = Idle
    /\ gitCalls = <<>>
    /\ last = [op |-> "init"]

CacheSwitchOptions ==
    {o \in SwitchOptions({LA}, {BrX}, {None}) : ~o.dryRun}

CacheCleanOptions == CleanOptions({LA}, {None})

NextCache ==
    \/ \E o \in CacheSwitchOptions : switchBegin(o)
    \/ switchNext("none")
    \/ switchReturn
    \/ \E o \in CacheCleanOptions : cleanBegin(o)
    \/ \E fail \in {"none", "worktree remove --force"} : cleanNext(fail)
    \/ cleanAfter
    \/ cleanReturn
    \/ \E fail \in {"none", "rev-parse", "status"} : listAll(fail)
    \/ Edit(<<worktrees_dir[1], LA, RepoQ>>)

SpecCache == InitCache /\ [][NextCache]_vars

----------------------------------------------------------------------------
(* The base branch specification: labels are created with and without an
   override of the base branch, and cleaned with their branches *)

BaseMaps ==
    {NoMap,
     [n \in RepoNames |-> IF n = RepoP THEN BrY ELSE None],
     [n \in RepoNames |-> BrY]}

BaseSwitchOptions ==
    [label : TreeLabels, default : {BrX, <<"z">>}, repo : {None}, dryRun : {FALSE},
     branchMap : {NoMap}, baseBranchMap : BaseMaps]

BaseCleanOptions ==
    {o \in CleanOptions(TreeLabels, {None}) :
         o.force /\ ~o.dryRun /\ o.deleteBranches}

NextBase ==
    \/ \E o \in BaseSwitchOptions : switchBegin(o)
    \/ \E fail \in {"none", "worktree add"} : switchNext(fail)
    \/ switchReturn
    \/ \E o \in BaseCleanOptions : cleanBegin(o)
    \/ cleanNext("none")
    \/ cleanAfter
    \/ cleanReturn

SpecBase == Init /\ [][NextBase]_vars

\* Builds that fail: the subprocess cannot be spawned, or it writes to
\* stdout and exits. Nothing runs after an uncaught exception has ended the
\* host.
MaxFailOutput == 2
MaxFailProcs == 2

Alive == \A pid \in 1..Len(procs) : procs[pid].st # "uncaught"

\* Chunks without blank lines: output is bounded with the lines written
FullLines == {pattern \in Patterns : Len(pattern) > 0 /\ \A i \in 1..Len(pattern) : pattern[i]}

NextFail ==
    \/ Alive /\ runBuildProcess(LA, "build_android", MaxFailProcs)
    \/ Alive /\ buildIOS(LA, MaxFailProcs)
    \/ Alive /\ \E pid \in 1..Len(procs), pattern \in FullLines :
                    OnData(pid, "stdout", pattern, MaxFailOutput)
    \/ Alive /\ \E pid \in 1..Len(procs), code \in {0, 1} :
                    runBuildProcessClose(pid, code)
    \/ Alive /\ \E pid \in 1..Len(procs), code \in {0, 1}, exportOk \in BOOLEAN :
                    buildIOSClose(pid, code, exportOk)
    \/ Alive /\ \E pid \in 1..Len(procs), survives \in BOOLEAN :
                    spawnError(pid, survives)

SpecFail == Init /\ [][NextFail]_vars

\* Builds of two labels, killed by label and by key
KillLabels == {LA, LB}

NextKill ==
    \/ \E label \in KillLabels : runBuildProcess(label, "build_android", MaxProcs)
    \/ \E label \in KillLabels : buildIOS(label, MaxProcs)
    \/ \E pid \in 1..Len(procs) : runBuildProcessClose(pid, 1)
    \/ \E pid \in 1..Len(procs) : buildIOSClose(pid, 1, TRUE)
    \/ \E label \in KillLabels : killBuild(label, "build_ios")
    \/ \E label \in KillLabels : killAllBuildsForLabel(label)

SpecKill == Init /\ [][NextKill]_vars

\* Requests, kills and queries with a label that is valid and with one that
\* is not, on builds that write output
QueryLabels == {LA, <<".", ".">>}

NextQuery ==
    \/ \E label \in QueryLabels : runBuildProcess(label, "build_android", MaxFailProcs)
    \/ \E pid \in 1..Len(procs), pattern \in Patterns :
           OnData(pid, "stderr", pattern, MaxFailOutput)
    \/ \E pid \in 1..Len(procs), code \in {0, 1} : runBuildProcessClose(pid, code)
    \/ \E label \in QueryLabels : killBuild(label, "build_android")
    \/ \E label \in QueryLabels : killAllBuildsForLabel(label)

SpecQuery == Init /\ [][NextQuery]_vars

\* The repository a pass of the loop of clean is about to process
CleanRepo == reposToClean(call.options)[call.idx]

CleanPath == join(call.labelFolder, CleanRepo.name)

\* clean is at an await that gives the event loop to other callbacks: the
\* pass to come finds a git worktree, so it awaits git worktree remove. A
\* build request that is handled during that await is handled, in this
\* model, before the pass.
\* Build requests for a label while a clean of the label awaits git
NextRace ==
    \/ \E o \in {o \in SwitchOptions({LA}, {BrX}, {None}) : ~o.dryRun} : switchBegin(o)
    \/ switchNext("none")
    \/ switchReturn
    \/ \E o \in {o \in CleanOptions({LA}, {None}) :
                    ~o.dryRun /\ ~o.deleteBranches /\ ~o.force} : cleanBegin(o)
    \/ cleanNext("none")
    \/ cleanAfter
    \/ cleanReturn
    \/ /\ \/ call = Idle
          \/ /\ call.op = "clean"
             /\ call.at = "loop"
             /\ worktreeExists(fs, CleanPath)
       /\ runBuildProcess(LA, "build_android", MaxFailProcs)
    \/ \E pid \in 1..Len(procs), code \in {0, 1} : runBuildProcessClose(pid, code)

SpecRace == Init /\ [][NextRace]_vars

\* The repository a pass of the loop of create is about to process, and its
\* branch
SwitchRepo == repos[call.idx]

SwitchBranch == Or(call.options.branchMap[SwitchRepo.name], call.options.default)

\* Branches that are new, local, remote, and both: x is in no repository at
\* first, y is on the remote of p; a clean leaves the local branches
NextBranch ==
    \/ \E o \in {o \in SwitchOptions(TreeLabels, {BrX, BrY}, {None}) : ~o.dryRun} :
           switchBegin(o)
    \/ \E fail \in {"none", "show-ref", "worktree add"} : switchNext(fail)
    \/ switchReturn
    \/ \E o \in {o \in CleanOptions(TreeLabels, {None}) :
                    ~o.force /\ ~o.dryRun /\ ~o.deleteBranches} : cleanBegin(o)
    \/ cleanNext("none")
    \/ cleanAfter
    \/ cleanReturn

SpecBranch == Init /\ [][NextBranch]_vars

\* A label folder with worktrees and with other entries, hidden and not
Hidden == <<".", "h">>

NextFolder ==
    \/ \E o \in {o \in SwitchOptions({LA}, {BrX}, {None}) : ~o.dryRun} : switchBegin(o)
    \/ switchNext("none")
    \/ switchReturn
    \/ \E o \in {o \in CleanOptions({LA}, {None, RepoQ}) :
                    ~o.deleteBranches /\ ~o.force} : cleanBegin(o)
    \/ cleanNext("none")
    \/ cleanAfter
    \/ cleanReturn
    \/ \E name \in {Hidden, <<"v">>} : Outside(<<worktrees_dir[1], LA, name>>)

SpecFolder == Init /\ [][NextFolder]_vars

\* create with a label that is empty or blank; the folder such a call
\* makes carries the name of the branch
NextEmpty ==
    \/ \E o \in SwitchOptions({None, <<" ">>}, {BrX, BrY}, {None, RepoQ}) : switchBegin(o)
    \/ switchNext("none")
    \/ switchReturn
    \/ \E o \in {o \in CleanOptions({BrX, BrY}, {None}) : ~o.dryRun /\ ~o.force} :
           cleanBegin(o)
    \/ cleanNext("none")
    \/ cleanAfter
    \/ cleanReturn

SpecEmpty == Init /\ [][NextEmpty]_vars

\* create calls only, in which git branch or git worktree add may fail: a
\* local branch that no worktree holds is then what a failed call left
NextRetry ==
    \/ \E o \in SwitchOptions({LA, LB}, {BrX, BrY}, {None}) : switchBegin(o)
    \/ \E fail \in {"none", "branch", "worktree add"} : switchNext(fail)
    \/ switchReturn

SpecRetry == Init /\ [][NextRetry]_vars

\* A build that is killed and requested again while the subprocess that
\* was killed still writes to its stdout
NextStale ==
    \/ runBuildProcess(LA, "build_android", MaxFailProcs)
    \/ \E pid \in 1..Len(procs), pattern \in FullLines :
           OnData(pid, "stdout", pattern, MaxFailOutput)
    \/ \E pid \in 1..Len(procs), code \in {0, 1} : runBuildProcessClose(pid, code)
    \/ killBuild(LA, "build_android")

SpecStale == Init /\ [][NextStale]_vars

\* Builds of the label a and of the label a:b, which validateLabel accepts
\* and whose keys start with the label a and a colon
NextPrefix ==
    \/ \E label \in {LA, <<"a", ":", "b">>} :
           runBuildProcess(label, "build_android", MaxFailProcs)
    \/ \E pid \in 1..Len(procs), pattern \in FullLines :
           OnData(pid, "stderr", pattern, MaxFailOutput)
    \/ \E pid \in 1..Len(procs), code \in {0, 1} : runBuildProcessClose(pid, code)
    \/ \E label \in {LA, <<"a", ":", "b">>} : killAllBuildsForLabel(label)

SpecPrefix == Init /\ [][NextPrefix]_vars

\* Dry runs of clean while builds of the label and of another label run. A
\* dry run awaits nothing that yields to the event loop, so requests and
\* 'close' events are handled between the calls.
NextDry ==
    \/ call = Idle /\ \E label \in TreeLabels :
                         runBuildProcess(label, "build_android", MaxProcs)
    \/ call = Idle /\ \E pid \in 1..Len(procs) : runBuildProcessClose(pid, 0)
    \/ \E n \in RepoNames : Outside(<<worktrees_dir[1], LA, n>>)
    \/ \E o \in {o \in CleanOptions({LA}, {None}) : o.dryRun /\ ~o.deleteBranches} :
           cleanBegin(o)
    \/ cleanNext("none")
    \/ cleanAfter
    \/ cleanReturn

SpecDry == Init /\ [][NextDry]_vars

\* Builds of one label that are requested, killed and requested again. A
\* subprocess that runs or was sent the signal ends, and node then emits
\* its 'close': the handler of each subprocess is weakly fair.
NextLive ==
    \/ runBuildProcess(LA, "build_android", MaxFailProcs)
    \/ buildIOS(LA, MaxFailProcs)
    \/ \E pid \in 1..Len(procs), code \in {0, 1} : runBuildProcessClose(pid, code)
    \/ \E pid \in 1..Len(procs), code \in {0, 1}, exportOk \in BOOLEAN :
           buildIOSClose(pid, code, exportOk)
    \/ \E type \in {"build_android", "build_ios"} : killBuild(LA, type)
    \/ killAllBuildsForLabel(LA)

\* The configuration with the repositories p and .q: nothing built, nothing
\* created
InitDot ==
    /\ activeBuilds = <<>>
    /\ procs = <<>>
    /\ lineNo = 0
    /\ received = <<>>
    /\ fs = {worktrees_dir}
    /\ git = [n \in {RepoP, RepoDot} |->
                 [local |-> {base_branch},
                  remote |-> Remote(n),
                  files |-> Files(n),
                  start |-> {<<base_branch, base_branch>>},
                  wt |-> {[path |-> << <<"s">>, n >>, branch |-> base_branch]}]]
    /\ call = Idle
    /\ gitCalls = <<>>
    /\ last = [op |-> "init"]

\* One label is created and cleaned, as a whole or one repository of it
NextDot ==
    \/ \E dryRun \in BOOLEAN :
           switchBegin([label |-> LA, default |-> BrX, repo |-> None,
                        dryRun |-> dryRun,
                        branchMap |-> [n \in {RepoP, RepoDot} |-> None],
                        baseBranchMap |-> [n \in {RepoP, RepoDot} |-> None]])
    \/ switchNext("none")
    \/ switchReturn
    \/ \E o \in CleanOptions({LA}, {None, RepoP, RepoDot}) : cleanBegin(o)
    \/ cleanNext("none")
    \/ cleanAfter
    \/ cleanReturn

SpecDot == InitDot /\ [][NextDot]_vars

\* list over a root that holds a label with worktrees, a hidden directory,
\* and a label directory whose entry for q is a directory without .git
NextList ==
    \/ \E o \in {o \in SwitchOptions({LA}, {BrX}, {None, RepoQ}) : ~o.dryRun} :
           switchBegin(o)
    \/ switchNext("none")
    \/ switchReturn
    \/ \E path \in {<<worktrees_dir[1], Hidden>>, <<worktrees_dir[1], LB>>,
                     <<worktrees_dir[1], LB, RepoQ>>} : Outside(path)
    \/ Edit(<<worktrees_dir[1], LA, RepoQ>>)
    \/ \E fail \in {"none", "rev-parse", "status"} : listAll(fail)

SpecList == Init /\ [][NextList]_vars

SpecLive ==
    /\ Init
    /\ [][NextLive]_vars
    /\ \A pid \in 1..MaxFailProcs :
           WF_vars(/\ pid <= Len(procs)
                   /\ \E code \in {0, 1}, exportOk \in BOOLEAN :
                          \/ runBuildProcessClose(pid, code)
                          \/ buildIOSClose(pid, code, exportOk))

----------------------------------------------------------------------------
(* The build tracker's claims *)

\* C1: while an ActiveBuild for (label, type) is in the registry, a further
\* build request for that key returns success=false with "already in
\* progress" in the same step; it spawns no process and leaves the registry
\* as it is.
C1_RejectedWhileActive ==
    [][(/\ last'.op = "build"
        /\ Has(activeBuilds, getBuildKey(last'.label, last'.type)))
       => /\ ~last'.success
          /\ last'.error = "already in progress"
          /\ procs' = procs
          /\ activeBuilds' = activeBuilds]_vars

C1_Witness ==
    /\ last.op = "build"
    /\ last.error = "already in progress"
    /\ Has(activeBuilds, getBuildKey(last.label, last.type))

\* C2: when a build's result is returned (the process closed with 0, with
\* another code, or after a kill) the registry holds no entry for its key,
\* and a build request for that key that comes next is accepted and spawns
\* a new process.
C2_AbsentAtResult ==
    /\ [](last.op = "close"
            => ~Has(activeBuilds, getBuildKey(last.label, last.type)))
    /\ [][(/\ last.op = "close"
           /\ last'.op = "build"
           /\ last'.label = last.label
           /\ last'.type = last.type)
          => /\ last'.success
             /\ Len(procs') = Len(procs) + 1
             /\ procs'[Len(procs')].st = "running"
             /\ Has(activeBuilds', getBuildKey(last.label, last.type))]_vars

C2_Witness ==
    /\ last.op = "build"
    /\ last.success
    /\ \E pid \in 1..Len(procs) :
           /\ procs[pid].st = "closed"
           /\ procs[pid].label = last.label
           /\ procs[pid].type = last.type

C10_KillBuild ==
    [][\A label \in BuildLabels, type \in BuildTypes :
         (/\ last'.op = "killBuild"
          /\ last'.label = label
          /\ last'.type = type)
         => IF Has(activeBuilds, getBuildKey(label, type))
            THEN /\ last'.value = TRUE
                 /\ procs'[Get(activeBuilds, getBuildKey(label, type)).process].st
                        = "killed"
                 /\ ~Has(activeBuilds', getBuildKey(label, type))
                 /\ ~isBuildInProgress(label, type)'
            ELSE /\ last'.value = FALSE
                 /\ procs' = procs
                 /\ activeBuilds' = activeBuilds]_vars

C10_Witness ==
    /\ last.op = "killBuild"
    /\ last.value = TRUE
    /\ ~isBuildInProgress(last.label, last.type)
    /\ \E pid \in 1..Len(procs) :
           /\ procs[pid].st = "killed"
           /\ procs[pid].label = last.label
           /\ procs[pid].type = last.type

----------------------------------------------------------------------------
(* The claims on create and clean *)

C5_Original ==
    [][(/\ call.op = "create"
        /\ call.at = "loop"
        /\ last'.op = "switchNext"
        /\ call.options.repo \in {None, repos[call.idx].name}
        /\ existsSync(fs, join(join(worktrees_dir, call.options.label),
                               repos[call.idx].name)))
       => /\ Len(call'.results) = Len(call.results) + 1
          /\ call'.results[Len(call'.results)].status = "already_exists"
          /\ call'.results[Len(call'.results)].success
          /\ gitCalls' = gitCalls
          /\ git' = git
          /\ fs' = fs]_vars

\* C5: the same, for a repository that a valid branch name is resolved for:
\* the result is already_exists with success=true, no git command is issued,
\* and git and the disk stay as they are.
C5_Exists ==
    [][(/\ call.op = "create"
        /\ call.at = "loop"
        /\ last'.op = "switchNext"
        /\ call.options.repo \in {None, repos[call.idx].name}
        /\ validateBranchName(Or(call.options.branchMap[repos[call.idx].name],
                                 call.options.default)) = "ok"
        /\ existsSync(fs, join(join(worktrees_dir, call.options.label),
                               repos[call.idx].name)))
       => /\ Len(call'.results) = Len(call.results) + 1
          /\ call'.results[Len(call'.results)].status = "already_exists"
          /\ call'.results[Len(call'.results)].success
          /\ gitCalls' = gitCalls
          /\ git' = git
          /\ fs' = fs]_vars

\* create was repeated for a label whose worktrees are there: every
\* repository answered already_exists and nothing was done
C5_Witness ==
    /\ call.op = "create"
    /\ call.at = "after"
    /\ Len(call.results) = Len(repos)
    /\ \A i \in 1..Len(call.results) :
           /\ call.results[i].status = "already_exists"
           /\ worktreeExists(fs, <<worktrees_dir[1], call.options.label,
                                   call.results[i].repoName>>)
    /\ gitCalls = <<>>
    /\ fs = call.pre.fs
    /\ git = call.pre.git

\* C6: a create or clean call whose label contains '..', '/' or a backslash,
\* or is an absolute path, returns one validation error and nothing else:
\* the disk and git are as they were when it began and no git command was
\* issued.
C6_InvalidLabelRejected ==
    (/\ call.op \in {"create", "clean"}
     /\ \/ Contains(call.options.label, <<".", ".">>)
        \/ Contains(call.options.label, <<"/">>)
        \/ Contains(call.options.label, <<"\\">>)
        \/ call.options.label[1] = "/")
    => /\ call.at = "return"
       /\ Len(call.results) = 1
       /\ ~call.results[1].success
       /\ call.results[1].status = "error"
       /\ call.results[1].message \in
              {"Invalid label: cannot contain path separators or traversal sequences",
               "Invalid label: cannot be an absolute path"}
       /\ fs = call.pre.fs
       /\ git = call.pre.git
       /\ gitCalls = <<>>

C6_Witness ==
    /\ call.op = "create"
    /\ call.options.label = <<"a", "\\", "b">>
    /\ call.at = "return"
    /\ call.results[1].status = "error"

\* C7: a clean call whose label passes the validation but whose normalized
\* label folder is not strictly below the normalized worktrees_dir returns
\* the security error and deletes nothing.
C7_NotBelowRoot ==
    (/\ call.op = "clean"
     /\ validateNoPathTraversal(call.options.label) = "ok"
     /\ LET root == normalize(worktrees_dir)
            folder == normalize(join(worktrees_dir, call.options.label))
        IN  ~(IsUnder(root, folder) /\ folder # root))
    => /\ call.at = "return"
       /\ call.results = <<Result(None, FALSE, "error",
                                  "Security error: path traversal detected")>>
       /\ fs = call.pre.fs
       /\ git = call.pre.git
       /\ gitCalls = <<>>

C7_Witness ==
    /\ call.op = "clean"
    /\ call.options.label = LDot
    /\ call.at = "return"
    /\ call.results[1].message = "Security error: path traversal detected"
    /\ existsSync(fs, worktrees_dir)

\* C8: in a create or clean call over both repositories, a git command that
\* fails while the first repository is processed does not end the batch:
\* the second repository is processed too, and its result is the one it
\* gets when no command fails for the first. In create, a failure of fetch,
\* branch or worktree add gives the status error to the repository it
\* happened in.
C8_FailureIsolated ==
    (/\ call.op \in {"create", "clean"}
     /\ call.at = "after"
     /\ call.options.repo = None)
    => /\ Len(call.results) = Len(repos)
       /\ LET o == call.options
              pre == call.pre
              first == IF call.op = "create"
                       THEN switchRepo(o, repos[1], pre.git[repos[1].name],
                                       pre.fs, "none")
                       ELSE cleanWorktree(repos[1].name, pre.git[repos[1].name],
                                          pre.fs, join(call.labelFolder, repos[1].name),
                                          o.force, o.dryRun, o.deleteBranches, "none")
              second == IF call.op = "create"
                        THEN switchRepo(o, repos[2], pre.git[repos[2].name],
                                        first.fs, call.fails[2])
                        ELSE cleanWorktree(repos[2].name, pre.git[repos[2].name],
                                           first.fs, join(call.labelFolder, repos[2].name),
                                           o.force, o.dryRun, o.deleteBranches,
                                           call.fails[2])
          IN  /\ call.results[2] = second.result
              /\ git[repos[2].name] = second.g
       /\ \A i \in 1..Len(repos) :
              (/\ call.op = "create"
               /\ call.fails[i] \in {"fetch", "branch", "worktree add",
                                     "worktree add --track"})
              => call.results[i].status = "error"

\* fetch failed for the first repository, which got an error, and the
\* second repository got its worktree
C8_Witness ==
    /\ call.op = "create"
    /\ call.at = "after"
    /\ call.fails = <<"fetch", "none">>
    /\ call.results[1].status = "error"
    /\ call.results[2].status = "created_new"
    /\ worktreeExists(fs, <<worktrees_dir[1], call.options.label, RepoQ>>)

\* C9: the step of clean(label) that kills the builds comes before anything
\* is removed: after it no build of the label is in the registry, every
\* process that was one is signalled, and the disk and git are still as they
\* were; what is on the disk goes only in the later steps of a clean call.
C9_KilledBeforeRemoval ==
    /\ [][(/\ last'.op = "cleanBegin"
           /\ validateNoPathTraversal(call'.options.label) = "ok")
          => /\ \A i \in 1..Len(activeBuilds) :
                    activeBuilds[i].label = call'.options.label
                        => procs'[activeBuilds[i].process].st = "killed"
             /\ \A i \in 1..Len(activeBuilds') :
                    activeBuilds'[i].label # call'.options.label
             /\ fs' = fs
             /\ git' = git
             /\ gitCalls' = <<>>]_vars
    /\ [][(\E path \in fs : path \notin fs')
          => /\ call.op = "clean"
             /\ call.at \in {"loop", "after"}
             /\ last'.op \in {"cleanNext", "cleanAfter"}]_vars

\* two builds of the label were killed by a clean call that has since
\* deleted a directory
C9_Witness ==
    /\ call.op = "clean"
    /\ \E path \in call.pre.fs : path \notin fs
    /\ \E p1, p2 \in 1..Len(procs) :
           /\ p1 # p2
           /\ procs[p1].st = "killed" /\ procs[p1].label = call.options.label
           /\ procs[p2].st = "killed" /\ procs[p2].label = call.options.label
    /\ \A i \in 1..Len(activeBuilds) : activeBuilds[i].label # call.options.label

----------------------------------------------------------------------------
(* The dry runs *)

\* C11: while and after a create call with dryRun=true works, the disk and
\* git are as they were when it began: no directory was made under
\* worktrees_dir, and no fetch, branch or worktree add was run.
C11_DryRunCreate ==
    (/\ call.op = "create"
     /\ call.options.dryRun)
    => /\ fs = call.pre.fs
       /\ git = call.pre.git
       /\ \A i \in 1..Len(gitCalls) :
              gitCalls[i].cmd \notin {"fetch", "branch", "worktree add",
                                      "worktree add --track"}

\* C12: while and after a clean call with dryRun=true works, nothing is
\* gone: the disk, with every worktree directory, the build cache and the
\* label directory, and git, with its worktrees and branches, are as they
\* were when it began; no worktree remove and no branch -D was run, and no
\* result says deleted.
C12_DryRunClean ==
    (/\ call.op = "clean"
     /\ call.options.dryRun)
    => /\ fs = call.pre.fs
       /\ git = call.pre.git
       /\ \A i \in 1..Len(gitCalls) :
              gitCalls[i].cmd \notin
                  {"worktree remove", "worktree remove --force", "branch -D"}
       /\ \A i \in 1..Len(call.results) : call.results[i].status # "deleted"

\* a dry run of clean is through with a label whose worktrees and build
\* cache are on the disk
C12_Witness ==
    /\ call.op = "clean"
    /\ call.options.dryRun
    /\ call.at = "return"
    /\ Len(call.results) = Len(repos)
    /\ \A i \in 1..Len(repos) : call.results[i].status = "dry_run"
    /\ isIOSProject(fs, <<worktrees_dir[1], LA, RepoP>>)
    /\ cleanIOSDerivedData(fs, <<worktrees_dir[1], LA, RepoP>>, TRUE).path # <<>>
    /\ worktreeExists(fs, <<worktrees_dir[1], LA, RepoQ>>)

----------------------------------------------------------------------------
(* The life of a label *)

\* C13: when create for a label that had no directory has given created_new
\* to every configured repository, list (with git answering) reports one
\* group of that label, with every repository exists=true and clean=true;
\* and when a clean of a valid label, with no filter, no dry run and no git
\* command failing, is through with a label whose directory held a worktree
\* for every repository and nothing else, every worktree directory and the
\* label directory are gone, the results are deleted for each repository
\* and one more deleted for the folder, and list reports no group of the
\* label.
C13_LabelLife ==
    /\ (/\ call.op = "create"
        /\ call.at = "after"
        /\ ~existsSync(call.pre.fs, join(worktrees_dir, call.options.label))
        /\ Len(call.results) = Len(repos)
        /\ \A i \in 1..Len(repos) : call.results[i].status = "created_new")
       => LET groups == {w \in list(fs, git, "none") : w.label = call.options.label}
          IN  /\ Cardinality(groups) = 1
              /\ \A w \in groups : \A i \in 1..Len(repos) :
                     /\ w.repos[i].name = repos[i].name
                     /\ w.repos[i].exists
                     /\ w.repos[i].clean
    /\ (/\ call.op = "clean"
        /\ call.at = "return"
        /\ ~call.options.dryRun
        /\ call.options.repo = None
        /\ validateNoPathTraversal(call.options.label) = "ok"
        /\ \A i \in 1..Len(call.fails) : call.fails[i] = "none"
        /\ readdirSync(call.pre.fs, call.labelFolder) = RepoNames
        /\ \A n \in RepoNames :
               /\ worktreeExists(call.pre.fs, join(call.labelFolder, n))
               /\ \E w \in call.pre.git[n].wt : w.path = join(call.labelFolder, n))
       => /\ \A n \in RepoNames : ~existsSync(fs, join(call.labelFolder, n))
          /\ ~existsSync(fs, call.labelFolder)
          /\ Len(call.results) = Len(repos) + 1
          /\ \A i \in 1..Len(repos) :
                 /\ call.results[i].repoName = repos[i].name
                 /\ call.results[i].status = "deleted"
          /\ call.results[Len(repos) + 1].repoName = None
          /\ call.results[Len(repos) + 1].status = "deleted"
          /\ call.results[Len(repos) + 1].success
          /\ \A w \in list(fs, git, "none") : w.label # call.options.label

\* a clean is through with a label that create had made new for every
\* repository: three results, the last one for the folder
C13_Witness ==
    /\ call.op = "clean"
    /\ call.at = "return"
    /\ ~call.options.dryRun
    /\ \A i \in 1..Len(call.fails) : call.fails[i] = "none"
    /\ readdirSync(call.pre.fs, call.labelFolder) = RepoNames
    /\ \A n \in RepoNames :
           [path |-> join(call.labelFolder, n), branch |-> BrX] \in call.pre.git[n].wt
    /\ Len(call.results) = Len(repos) + 1
    /\ call.results[Len(repos) + 1].status = "deleted"
    /\ ~existsSync(fs, call.labelFolder)
    /\ list(fs, git, "none") = {}

----------------------------------------------------------------------------
(* The base branch *)

\* C14: the base branch is the override given for the repository, without
\* one the configured base_branch, and without that 'master'; and whenever
\* a step of create makes a new branch with git branch, the branch starts
\* at origin/B for the B resolved so for the repository.
C14_StartPoint ==
    /\ [](\A override, configured \in {None, BrY, base_branch} :
              resolveBaseBranch(override, configured)
                  = IF override # None THEN override
                    ELSE IF configured # None THEN configured
                    ELSE <<"m", "a", "s", "t", "e", "r">>)
    /\ [][(/\ call.op = "create"
           /\ call.at = "loop"
           /\ last'.op = "switchNext"
           /\ \E i \in (Len(gitCalls) + 1)..Len(gitCalls') :
                  gitCalls'[i].cmd = "branch"
           /\ git'[repos[call.idx].name].local # git[repos[call.idx].name].local)
          => LET name == repos[call.idx].name
                 branch == Or(call.options.branchMap[name], call.options.default)
                 override == call.options.baseBranchMap[name]
                 B == IF override # None THEN override ELSE base_branch
             IN  /\ git'[name].local = git[name].local \cup {branch}
                 /\ B \in git[name].remote
                 /\ git'[name].start = git[name].start \cup {<<branch, B>>}]_vars

\* in one call with an override for repository p alone, the new branch of p
\* starts at the override and that of q at the configured base branch
C14_Witness ==
    /\ call.op = "create"
    /\ call.at = "after"
    /\ call.options.baseBranchMap[RepoP] = BrY
    /\ call.options.baseBranchMap[RepoQ] = None
    /\ call.results[1].status = "created_new"
    /\ call.results[2].status = "created_new"
    /\ <<call.options.default, BrY>> \in git[RepoP].start
    /\ <<call.options.default, base_branch>> \in git[RepoQ].start

\* C15: a build whose subprocess exits with a code that is not 0, or cannot
\* be spawned, resolves with success = false and an error, with the output
\* captured so far attached, and no entry for its key is left in the
\* registry. Stated on the step that brings the news: the 'close' with the
\* code, or the 'error' of the spawn.
C15_FailureResolved ==
    [][(last'.op = "error" \/ (last'.op = "close" /\ last'.code # 0))
       => /\ last'.op = "close"
          /\ ~last'.success
          /\ last'.error # "none"
          /\ last'.output = procs[last'.pid].output
          /\ ~Has(activeBuilds', getBuildKey(last'.label, last'.type))]_vars

\* C16: killAllBuildsForLabel(label) removes exactly the entries of the
\* registry whose label is label and returns their number; the entries of
\* every other label stay as they were, in their order.
C16_KillAllFrame ==
    [][\A label \in KillLabels :
         (last'.op = "killAllBuildsForLabel" /\ last'.label = label)
         => /\ activeBuilds' = SelectSeq(activeBuilds, LAMBDA b : b.label # label)
            /\ last'.value =
                 Cardinality({i \in 1..Len(activeBuilds) : activeBuilds[i].label = label})]_vars

C16_Witness ==
    /\ last.op = "killAllBuildsForLabel"
    /\ last.value = 2
    /\ Len(activeBuilds) = 1
    /\ activeBuilds[1].label # last.label
    /\ Cardinality({pid \in 1..Len(procs) :
                       procs[pid].st = "killed" /\ procs[pid].label = last.label}) = 2
    /\ \E pid \in 1..Len(procs) :
           procs[pid].st = "running" /\ procs[pid].label = activeBuilds[1].label

\* C17: for a label that fails the validation, isBuildInProgress is false,
\* getActiveBuildInfo is null, getBuildOutput is the empty list, killBuild
\* returns false and killAllBuildsForLabel returns 0, and the two kills
\* leave the registry and the processes as they were (the queries write
\* nothing).
C17_InvalidLabelNoBuild ==
    /\ [](\A label \in InvalidLabels :
            /\ getActiveBuildInfo(label) = <<>>
            /\ \A type \in BuildTypes \cup {NoType} :
                   /\ ~isBuildInProgress(label, type)
                   /\ getBuildOutput(label, type) = <<>>)
    /\ [][\A label \in InvalidLabels :
            /\ (last'.op = "killBuild" /\ last'.label = label)
               => (last'.value = FALSE /\ UNCHANGED <<activeBuilds, procs>>)
            /\ (last'.op = "killAllBuildsForLabel" /\ last'.label = label)
               => (last'.value = 0 /\ UNCHANGED <<activeBuilds, procs>>)]_vars

C17_Witness ==
    /\ last.op \in {"killBuild", "killAllBuildsForLabel"}
    /\ last.label \in InvalidLabels
    /\ isBuildInProgress(LA, NoType)
    /\ getBuildOutput(LA, NoType) # <<>>
    /\ getActiveBuildInfo(LA) = <<[type |-> "build_android"]>>

----------------------------------------------------------------------------
(* The result lists *)

\* The repoName of each result, in the order of the list
Names(results) == [i \in 1..Len(results) |-> results[i].repoName]

\* The names of the configured repositories that pass the filter, in the
\* configured order
FilteredNames(options) ==
    LET passing == SelectSeq(repos, LAMBDA r : options.repo = None \/ r.name = options.repo)
    IN  [i \in 1..Len(passing) |-> passing[i].name]

\* The create half of C18 and of its amended form
CreateResultsInOrder ==
    (/\ call.op = "create"
     /\ call.at \in {"after", "return"}
     /\ validateLabelSwitch(call.options.label) = "ok")
    => Names(call.results) = FilteredNames(call.options)

C19_ExportAfterArchive ==
    [][(last'.op = "close" /\ last'.type = "build_ios")
       => /\ (last'.export # "not run") <=> (last'.code = 0)
          /\ (last'.export = "failed")
                => (~last'.success /\ last'.error = "Export failed")
          /\ ~Has(activeBuilds', getBuildKey(last'.label, "build_ios"))]_vars

C19_Witness ==
    /\ last.op = "close"
    /\ last.type = "build_ios"
    /\ last.code = 0
    /\ last.export = "failed"
    /\ ~last.success
    /\ \E pid \in 1..Len(procs) :
           /\ pid # last.pid
           /\ procs[pid].st = "closed"
           /\ procs[pid].type = "build_ios"

\* The subprocesses of a key that have neither closed nor been killed
Running(label, type) ==
    {pid \in 1..Len(procs) :
        /\ procs[pid].st = "running"
        /\ procs[pid].label = label
        /\ procs[pid].type = type}

\* C20: under any interleaving of build requests, kills and 'close' events,
\* at most one subprocess that has neither closed nor been killed exists
\* per (label, type) key, and isBuildInProgress(label, type) is true as long
\* as such a subprocess runs; the 'close' of an earlier, killed subprocess
\* of the key does not remove the entry of a newer build of the same key.
C20_OneRunningPerKey ==
    /\ [](\A label \in BuildLabels, type \in BuildTypes :
            /\ Cardinality(Running(label, type)) <= 1
            /\ Running(label, type) # {} => isBuildInProgress(label, type))
    /\ [][\A label \in BuildLabels, type \in BuildTypes :
            (/\ last'.op = "close"
             /\ last'.label = label
             /\ last'.type = type
             /\ procs[last'.pid].st = "killed"
             /\ Has(activeBuilds, getBuildKey(label, type))
             /\ Get(activeBuilds, getBuildKey(label, type)).process # last'.pid)
            => /\ Has(activeBuilds', getBuildKey(label, type))
               /\ Get(activeBuilds', getBuildKey(label, type))
                    = Get(activeBuilds, getBuildKey(label, type))]_vars

----------------------------------------------------------------------------
(* The steps of clean and create *)

\* C21: in a clean with deleteBranches = true, for every repository whose
\* worktree was valid, whose current branch was captured and whose result
\* is deleted, git branch -D has been run in the base repository before
\* the result is returned, whichever way the directory went.
C21_BranchDeleted ==
    [][(/\ call.op = "clean"
        /\ call.at = "loop"
        /\ last'.op = "cleanNext"
        /\ call.options.deleteBranches
        /\ worktreeExists(fs, CleanPath)
        /\ getCurrentBranch(git[CleanRepo.name], CleanPath, "none") # None
        /\ call'.fails[Len(call'.fails)] # "rev-parse"
        /\ call'.results[Len(call'.results)].status = "deleted")
       => \E i \in (Len(gitCalls) + 1)..Len(gitCalls') :
              gitCalls'[i] = [repo |-> CleanRepo.name, cmd |-> "branch -D"]]_vars

\* The git commands a pass of a loop has just run, in their order
NewCmds ==
    [i \in 1..(Len(gitCalls') - Len(gitCalls)) |-> gitCalls'[Len(gitCalls) + i].cmd]

\* C22: the fetch of create is best-effort: when fetchRepo fails, the
\* checks of the branch and the worktree add still run for the repository,
\* and its result is the one it has when nothing fails.
C22_FetchBestEffort ==
    [][(/\ call.op = "create"
        /\ call.at = "loop"
        /\ last'.op = "switchNext"
        /\ Len(call'.fails) = Len(call.fails) + 1
        /\ call'.fails[Len(call'.fails)] = "fetch")
       => LET ran == {NewCmds[i] : i \in DOMAIN NewCmds}
          IN  /\ {"show-ref", "ls-remote"} \subseteq ran
              /\ ran \cap {"worktree add", "worktree add --track"} # {}
              /\ call'.results[Len(call'.results)]
                   = switchRepo(call.options, SwitchRepo, git[SwitchRepo.name],
                                fs, "none").result]_vars

\* C23: clean gives removeWorktree the force option of the caller, so a
\* clean with force = false runs git worktree remove without --force.
C23_ForceAsAsked ==
    call.op = "clean"
    => \A i \in 1..Len(gitCalls) :
           gitCalls[i].cmd \in {WorktreeRemove(TRUE), WorktreeRemove(FALSE)}
           => gitCalls[i].cmd = WorktreeRemove(call.options.force)

\* C24: from the moment clean(label) has killed the builds of the label
\* until the call returns, no build of the label is in the registry, and no
\* subprocess of the label is started in a directory that is being
\* deleted.
C24_NoBuildDuringClean ==
    (/\ call.op = "clean"
     /\ validateNoPathTraversal(call.options.label) = "ok")
    => /\ \A i \in 1..Len(activeBuilds) : activeBuilds[i].label # call.options.label
       /\ \A pid \in 1..Len(procs) :
              procs[pid].label = call.options.label => procs[pid].st # "running"

C28_LabelDirWithWorktree ==
    (/\ call.op = "create"
     /\ call.at \in {"after", "return"}
     /\ \A i \in 1..Len(call.results) :
            call.results[i].status \notin {"created_new", "added_local", "added_remote"})
    => /\ readdirSync(fs, worktrees_dir) \subseteq readdirSync(call.pre.fs, worktrees_dir)
       /\ {group.label : group \in list(fs, git, "none")}
            \subseteq {group.label : group \in list(call.pre.fs, call.pre.git, "none")}

C30_EmptyLabelRejected ==
    (/\ call.op = "create"
     /\ (Len(call.options.label) = 0 \/ TrimIsEmpty(call.options.label)))
    => /\ call.at = "return"
       /\ Len(call.results) = 1
       /\ call.results[1].status = "error"
       /\ ~call.results[1].success
       /\ fs = call.pre.fs
       /\ git = call.pre.git
       /\ gitCalls = <<>>

\* C31: after clean returns deleted for the worktree of a repository, with
\* or without force, the branch that was checked out there is no longer
\* registered as attached in the repository, so that a later create for the
\* repository and the branch does not return already_in_use because of the
\* deleted worktree.
C31_DeletedIsDetached ==
    (/\ call.op = "clean"
     /\ call.at \in {"after", "return"})
    => \A i \in 1..Len(call.results) :
           (/\ call.results[i].status = "deleted"
            /\ call.results[i].repoName \in RepoNames)
           => \A w \in git[call.results[i].repoName].wt :
                  w.path # join(call.labelFolder, call.results[i].repoName)

\* C32: when a create has failed for a repository after createBranch
\* succeeded (addWorktree failed), the same create run again does not fail
\* on the branch that was left: it takes the path of the local branch and
\* returns added_local once addWorktree succeeds.
C32_RetryAddsLocal ==
    (/\ call.op = "create"
     /\ ~call.options.dryRun)
    => \A i \in 1..Len(call.results) :
           LET n == repos[i].name
               branch == call.options.default
               path == join(join(worktrees_dir, call.options.label), n)
           IN  (/\ branch \in call.pre.git[n].local
                /\ \A w \in call.pre.git[n].wt : w.branch # branch
                /\ ~existsSync(call.pre.fs, path)
                /\ call.fails[i] = "none")
               => /\ call.results[i].status = "added_local"
                  /\ call.results[i].success
                  /\ worktreeExists(fs, path)
                  /\ [path |-> path, branch |-> branch] \in git[n].wt

\* a create has added the worktree of q for branch x, which a call that
\* failed at git worktree add had left in q
C32_Witness ==
    /\ call.op = "create"
    /\ call.at = "after"
    /\ call.options.default = BrX
    /\ BrX \in call.pre.git[RepoQ].local
    /\ \A w \in call.pre.git[RepoQ].wt : w.branch # BrX
    /\ call.results[2].status = "added_local"
    /\ worktreeExists(fs, <<worktrees_dir[1], call.options.label, RepoQ>>)

\* C33: the outputBuffer that getBuildOutput returns for an active build
\* holds only lines that the subprocess of that build has written; what an
\* earlier subprocess of the key, one that was killed, still writes is never
\* added to it.
C33_OwnOutputOnly ==
    \A i \in 1..Len(activeBuilds) :
        LET build == activeBuilds[i]
            buffer == getBuildOutput(build.label, build.type)
            own == procs[build.process].output
        IN  \A k \in 1..Len(buffer) : \E j \in 1..Len(own) : own[j] = buffer[k]

\* C34: isBuildInProgress(label) without a type, getActiveBuildInfo(label)
\* and getBuildOutput(label) report a build only if an ActiveBuild whose
\* label is equal to label exists; an active build of another label, such
\* as one that starts with label and ':', is never reported, as in
\* killAllBuildsForLabel, which compares the labels.
C34_ExactLabel ==
    \A label \in {LA, <<"a", ":", "b">>} :
        LET same == SelectSeq(activeBuilds, LAMBDA b : b.label = label)
        IN  /\ isBuildInProgress(label, NoType) <=> same # <<>>
            /\ getActiveBuildInfo(label)
                 = IF same = <<>> THEN <<>> ELSE <<[type |-> same[1].type]>>
            /\ getBuildOutput(label, NoType)
                 = IF same = <<>> THEN <<>> ELSE same[1].outputBuffer

\* C35: a clean call with dryRun = true leaves the registry of active
\* builds as it is and kills no subprocess.
C35_DryRunKillsNothing ==
    [][(/\ last'.op \in {"cleanBegin", "cleanNext", "cleanAfter", "cleanReturn"}
        /\ \/ call.op = "clean" /\ call.options.dryRun
           \/ call'.op = "clean" /\ call'.options.dryRun)
       => /\ activeBuilds' = activeBuilds
          /\ procs' = procs]_vars

C37_EventuallyGone ==
    \A pid \in 1..MaxFailProcs :
        (pid <= Len(procs))
            ~> (/\ pid <= Len(procs)
                /\ procs[pid].st = "closed"
                /\ \A i \in 1..Len(activeBuilds) : activeBuilds[i].process # pid)

\* two builds were accepted, one of them was killed, both have closed and
\* the registry is empty
C37_Witness ==
    /\ Len(procs) = 2
    /\ procs[1].st = "closed"
    /\ procs[2].st = "closed"
    /\ activeBuilds = <<>>
    /\ last.op = "close"

\* C38: listAll returns one group for each immediate subdirectory of the
\* worktree root whose name does not start with a dot, each with exactly
\* one entry for each configured repository, in the configured order; an
\* entry has exists = true exactly when root/label/repoName exists and
\* holds .git, and an entry with exists = false has the branch '',
\* clean = true and uncommitted = 0.
C38_GroupsOfRoot ==
    last.op = "list"
    => LET labels == {name \in readdirSync(fs, worktrees_dir) : name[1] # "."}
       IN  /\ {group.label : group \in last.value} = labels
           /\ Cardinality(last.value) = Cardinality(labels)
           /\ \A group \in last.value :
                  /\ Len(group.repos) = Len(repos)
                  /\ \A i \in 1..Len(repos) :
                         LET entry == group.repos[i]
                             path == <<worktrees_dir[1], group.label, repos[i].name>>
                         IN  /\ entry.name = repos[i].name
                             /\ entry.exists <=> (/\ path \in fs
                                                  /\ Append(path, DotGit) \in fs)
                             /\ ~entry.exists => /\ entry.branch = <<>>
                                                 /\ entry.clean
                                                 /\ entry.uncommitted = 0

\* list has reported the labels a and b and not the hidden directory: a
\* with the worktree of p, b with a directory of q that is no worktree
C38_Witness ==
    /\ last.op = "list"
    /\ <<worktrees_dir[1], Hidden>> \in fs
    /\ <<worktrees_dir[1], LB, RepoQ>> \in fs
    /\ {group.label : group \in last.value} = {LA, LB}
    /\ \E group \in last.value :
           group.label = LA /\ group.repos[1].exists /\ group.repos[1].branch = BrX
    /\ \E group \in last.value :
           group.label = LB /\ ~group.repos[2].exists

\* C39: a clean call that the repo filter restricts to one repository
\* deletes the worktree directory of that repository only, and the label
\* directory when nothing else is left in it; it never deletes the worktree
\* directory of another configured repository under the label.
C39_OthersStay ==
    (/\ call.op = "clean"
     /\ call.options.repo # None)
    => \A i \in 1..Len(repos) :
           (/\ repos[i].name # call.options.repo
            /\ worktreeExists(call.pre.fs, join(call.labelFolder, repos[i].name)))
           => worktreeExists(fs, join(call.labelFolder, repos[i].name))

\* C40: in every entry that listAll or getOne returns, clean is true
\* exactly when uncommitted is 0, for worktrees that exist and for those
\* that are missing.
C40_CleanIffNoneUncommitted ==
    last.op = "list"
    => LET one == getWorktreeInfo(LA, fs, git, last.fail)
       IN  \A group \in last.value \cup {one[i] : i \in 1..Len(one)} :
               \A i \in 1..Len(group.repos) :
                   group.repos[i].clean <=> group.repos[i].uncommitted = 0
====
